---- MODULE Spec2Model ----
(***************************************************************************)
(* A model of the layered cache of js/services/storageService.js:          *)
(* localStorage (persistent tier), the memoryCache Map (in-memory tier)    *)
(* and the Cache API (HTTP-cache tier), with TTL expiry and the            *)
(* stale-while-revalidate read.                                            *)
(*                                                                         *)
(* JavaScript runs one callback at a time; a handler is suspended only at  *)
(* an await of real I/O (the Cache API calls and the caller's fetchFn).    *)
(* Every action below is one run of a handler from its start, or from an   *)
(* await, up to its next await or its end.                                 *)
(*                                                                         *)
(* Platform faults: localStorage.setItem may throw on any call (quota),    *)
(* cache.put may fail on any call.  A disabled localStorage or a missing   *)
(* Cache API behaves as a tier that is empty and whose every write fails,  *)
(* which is one of the behaviours below.                                   *)
(***************************************************************************)
EXTENDS Integers, Sequences, FiniteSets, TLC

VARIABLES
  now,                  \* Date.now(), in milliseconds
  localStorage,         \* the origin's localStorage: a sequence of [key, value], in key(i) order
  memoryCache,          \* the memoryCache Map: a sequence of [key, value], in insertion order
  cacheStorage,         \* the Cache API cache named CACHE_NAME: a set of [key, value]
  pendingRevalidations, \* the pendingRevalidations Set
  procs,                \* the suspended async calls, in the order they started
  last,                 \* what the handler that ran last did and returned
  latest,               \* per key, the entry the last set of that key wrote (none after remove/clear)
  bgCalls,              \* per key, background fetchFn calls started since the key's entry was last written
  calls,                \* the number of calls of the public API made so far
  stats,                \* the StatsService instance and the stats display of the page
  probe,                \* the last direct call of a function of SearchService, with its result
  search,               \* the SearchService instance, its page content and its widget
  accordion             \* one accordion group of the page and its details elements

vars == <<now, localStorage, memoryCache, cacheStorage, pendingRevalidations,
          procs, last, latest, bgCalls, calls, stats, probe,
          search, accordion>>

(* The state of StorageService, with the ghost variables that follow it,   *)
(* and the state of the rest of the page                                   *)
storageVars == <<now, memoryCache, cacheStorage, pendingRevalidations,
                 procs, last, latest, bgCalls, calls>>

pageVars == <<stats, probe, search, accordion>>

searchVars == <<probe, search, accordion>>

----------------------------------------------------------------------------
(* Bounds of the model *)

MaxTime == 8
MaxProcs == 2
MaxForeign == 1
MaxCalls == 3

(* Program constants *)

DEFAULT_TTL == 300000
MemoryCacheLimit == 100

(* The clock is sampled at the instants that separate the regimes of an   *)
(* entry written at time 1 with a ttl of 6: age 5 (stale), age 6 (the ttl  *)
(* itself, not yet expired) and a later one (expired).                     *)
Instants == {1, 6, 7, MaxTime}

(* Inputs *)

Keys == {<<"a">>, <<"b">>}
ForeignKeys == {<<"o", "m", "c", "_", "s">>, <<"x">>}
Undefined == "undefined"
Null == "null"
Values == {"v1", "v2"}
FetchResults == {"v2", Undefined}
TTLs == {0, 6}
Callbacks == {"none", "cb1"}

NoEntry == [absent |-> TRUE]

(* An exception that leaves a helper, in place of the entry it returns, and *)
(* one that leaves a public method, in place of its result                  *)
Threw == [threw |-> TRUE]
Raised == "raised"

----------------------------------------------------------------------------
(* Strings as sequences of characters *)

startsWith(s, p) == Len(s) >= Len(p) /\ SubSeq(s, 1, Len(p)) = p

Prefix == <<"o", "m", "c", ":">>

getCacheKey(key) == Prefix \o key

(* wrapData: ttl || DEFAULT_TTL *)
wrapData(data, ttl) ==
  [data |-> data, timestamp |-> now, ttl |-> IF ttl = 0 THEN DEFAULT_TTL ELSE ttl]

dataOf(w) == IF "data" \in DOMAIN w THEN w.data ELSE Undefined

(* JSON.stringify drops a property whose value is undefined; reading the   *)
(* property of the parsed object then yields undefined again.              *)
stringify(w) ==
  IF dataOf(w) = Undefined THEN [timestamp |-> w.timestamp, ttl |-> w.ttl] ELSE w

(* JSON.parse of a stored string; a string that is not JSON throws *)
parses(s) == "raw" \notin DOMAIN s

isExpired(w) ==
  IF w = NoEntry \/ w.timestamp = 0 THEN TRUE
  ELSE (now - w.timestamp) > w.ttl

(* Faulty variant: an entry counts as stale only once it has expired *)
isStale_atExpiry(w) ==
  IF w = NoEntry \/ w.timestamp = 0 THEN TRUE
  ELSE (now - w.timestamp) > w.ttl

(* age > ttl * 0.8; for integer milliseconds this is 5 * age > 4 * ttl *)
isStale(w) ==
  IF w = NoEntry \/ w.timestamp = 0 THEN TRUE
  ELSE 5 * (now - w.timestamp) > 4 * w.ttl

----------------------------------------------------------------------------
(* Ordered key/value stores *)

indexOf(s, k) ==
  IF \E i \in 1..Len(s) : s[i].key = k
  THEN CHOOSE i \in 1..Len(s) : s[i].key = k
  ELSE 0

hasKey(s, k) == indexOf(s, k) # 0

putItem(s, k, v) ==
  IF hasKey(s, k) THEN [s EXCEPT ![indexOf(s, k)].value = v]
  ELSE Append(s, [key |-> k, value |-> v])

dropItem(s, k) == SelectSeq(s, LAMBDA e : e.key # k)

(* setLocalStorage, the branch where setItem does not throw *)
setLocalStorage(ls, key, w) == putItem(ls, getCacheKey(key), stringify(w))

(* Faulty variant: JSON.parse outside the try block *)
getLocalStorage_noCatch(key) ==
  LET k == getCacheKey(key) IN
  IF ~hasKey(localStorage, k) THEN NoEntry
  ELSE LET s == localStorage[indexOf(localStorage, k)].value IN
       IF parses(s) THEN s ELSE Threw

getLocalStorage(key) ==
  LET k == getCacheKey(key) IN
  IF ~hasKey(localStorage, k) THEN NoEntry
  ELSE LET s == localStorage[indexOf(localStorage, k)].value IN
       IF parses(s) THEN s ELSE NoEntry

removeLocalStorage(ls, key) == dropItem(ls, getCacheKey(key))

(* Faulty variant: evicts as soon as the map reaches the limit *)
setMemoryCache_offByOne(m, key, w) ==
  LET m1 == putItem(m, getCacheKey(key), w) IN
  IF Len(m1) >= MemoryCacheLimit THEN dropItem(m1, m1[1].key) ELSE m1

setMemoryCache(m, key, w) ==
  LET m1 == putItem(m, getCacheKey(key), w) IN
  IF Len(m1) > MemoryCacheLimit THEN dropItem(m1, m1[1].key) ELSE m1

getMemoryCache(key) ==
  LET k == getCacheKey(key) IN
  IF hasKey(memoryCache, k) THEN memoryCache[indexOf(memoryCache, k)].value
  ELSE NoEntry

(* setCacheAPI, the branch where cache.put succeeds *)
setCacheAPI(c, key, w) ==
  {e \in c : e.key # getCacheKey(key)}
    \cup {[key |-> getCacheKey(key), value |-> stringify(w)]}

getCacheAPI(key) ==
  LET hit == {e \in cacheStorage : e.key = getCacheKey(key)} IN
  IF hit = {} THEN NoEntry ELSE (CHOOSE e \in hit : TRUE).value

(* get: localStorage first, memory only when localStorage has no entry; get *)
(* has no try block of its own, so what a helper throws leaves get         *)
get(key) ==
  LET ls == getLocalStorage(key)
      wrapped == IF ls = NoEntry THEN getMemoryCache(key) ELSE ls
  IN IF ls = Threw THEN Raised
     ELSE IF wrapped = NoEntry THEN Null
     ELSE IF isExpired(wrapped) THEN Null
     ELSE dataOf(wrapped)

----------------------------------------------------------------------------
(* Suspended calls and the record of the last handler run *)

Proc(kind, stage, key, data, ttl, cb, w) ==
  [kind |-> kind, stage |-> stage, key |-> key, data |-> data, ttl |-> ttl,
   cb |-> cb, w |-> w]

removeAt(s, i) == SubSeq(s, 1, i - 1) \o SubSeq(s, i + 1, Len(s))

(* op: what ran; by: the call it belongs to; ret: what the call returned;  *)
(* found: the entry the call read; wrote: the entry it wrote; ls, mem,     *)
(* mirror: the tiers a set wrote; started: fetchFn was called in the       *)
(* background; guarded: the key was in pendingRevalidations at the call;   *)
(* awaited: the caller waited for an await of I/O; before: localStorage as *)
(* clear found it.                                                         *)
None == [op |-> "none", by |-> "none", key |-> <<>>, ret |-> Null,
         found |-> NoEntry, wrote |-> NoEntry, started |-> FALSE,
         awaited |-> FALSE, guarded |-> FALSE, cb |-> "none",
         ls |-> FALSE, mem |-> FALSE, mirror |-> "none", before |-> <<>>]

Ev(op, by, key, ret) == [None EXCEPT !.op = op, !.by = by, !.key = key, !.ret = ret]

noEntries == [k \in Keys |-> NoEntry]

bump(n) == IF n < 2 THEN n + 1 ELSE 2

(* A call of the public API is made *)
called == calls < MaxCalls /\ calls' = calls + 1

(* The entry of key that the last set wrote, and the count of background   *)
(* fetches since, kept for the keys the claims are about                   *)
noteWrite(key, w) ==
  /\ latest' = IF key \in DOMAIN latest THEN [latest EXCEPT ![key] = w] ELSE latest
  /\ bgCalls' = IF key \in DOMAIN bgCalls THEN [bgCalls EXCEPT ![key] = 0] ELSE bgCalls

----------------------------------------------------------------------------
(* set(key, data, ttl) *)

(* What follows a completed set in the caller that awaited it: set returns *)
(* true; getStaleWhileRevalidate returns freshData; revalidateInBackground *)
(* calls onUpdate, if one was given, and leaves the guard set               *)
afterSet(p, mirror, viaLS) ==
  CASE p.kind = "set" ->
         /\ last' = [Ev("set", "set", p.key, "true") EXCEPT
                       !.wrote = p.w, !.ls = viaLS, !.mem = ~viaLS, !.mirror = mirror]
         /\ UNCHANGED pendingRevalidations
    [] p.kind = "swr" ->
         /\ last' = [Ev("swr", "swr", p.key, p.data) EXCEPT
                       !.wrote = p.w, !.ls = viaLS, !.mem = ~viaLS, !.awaited = TRUE]
         /\ UNCHANGED pendingRevalidations
    [] p.kind = "reval" ->
         /\ last' = [Ev(IF p.cb # "none" THEN "onUpdate" ELSE "revalidated",
                        "reval", p.key, p.data) EXCEPT
                       !.wrote = p.w, !.ls = viaLS, !.mem = ~viaLS, !.cb = p.cb]
         /\ pendingRevalidations' = pendingRevalidations \ {p.key}

(* Faulty variant: the memory tier is written on every set *)
setSync_bothTiers(p, i, lsOK) ==
  /\ memoryCache' = setMemoryCache(memoryCache, p.key, p.w)
  /\ IF lsOK
     THEN /\ localStorage' = setLocalStorage(localStorage, p.key, p.w)
          /\ procs' = IF i = 0 THEN Append(procs, p) ELSE [procs EXCEPT ![i] = p]
          /\ last' = [Ev("set_call", p.kind, p.key, Null) EXCEPT !.wrote = p.w, !.ls = TRUE]
          /\ UNCHANGED pendingRevalidations
     ELSE /\ procs' = IF i = 0 THEN procs ELSE removeAt(procs, i)
          /\ afterSet(p, "none", FALSE)
          /\ UNCHANGED localStorage
  /\ noteWrite(p.key, p.w)
  /\ UNCHANGED <<now, cacheStorage>>

(* set from its start: wrapData and setLocalStorage; when setItem throws,  *)
(* setMemoryCache and the return; otherwise up to the await of setCacheAPI *)
setSync(p, i, lsOK) ==
  /\ IF lsOK
     THEN /\ localStorage' = setLocalStorage(localStorage, p.key, p.w)
          /\ procs' = IF i = 0 THEN Append(procs, p) ELSE [procs EXCEPT ![i] = p]
          /\ last' = [Ev("set_call", p.kind, p.key, Null) EXCEPT !.wrote = p.w, !.ls = TRUE]
          /\ UNCHANGED <<memoryCache, pendingRevalidations>>
     ELSE /\ memoryCache' = setMemoryCache(memoryCache, p.key, p.w)
          /\ procs' = IF i = 0 THEN procs ELSE removeAt(procs, i)
          /\ afterSet(p, "none", FALSE)
          /\ UNCHANGED localStorage
  /\ noteWrite(p.key, p.w)
  /\ UNCHANGED <<now, cacheStorage>>

set_call(key, data, ttl, lsOK) ==
  /\ lsOK => Len(procs) < MaxProcs
  /\ setSync(Proc("set", "mirror", key, data, ttl, "none", wrapData(data, ttl)), 0, lsOK)
  /\ called
  /\ UNCHANGED pageVars

(* setCacheAPI settles: cache.put is made, or fails and is ignored *)
set_mirror(i, ok) ==
  LET p == procs[i] IN
  /\ p.stage = "mirror"
  /\ cacheStorage' = IF ok THEN setCacheAPI(cacheStorage, p.key, p.w) ELSE cacheStorage
  /\ procs' = removeAt(procs, i)
  /\ afterSet(p, IF ok THEN "ok" ELSE "failed", TRUE)
  /\ UNCHANGED <<now, localStorage, memoryCache, latest, bgCalls, calls>>
  /\ UNCHANGED pageVars

(* preload(items): items.map runs every set up to its first await, in the  *)
(* order of items.  Modelled for a localStorage whose setItem throws on    *)
(* every call, so that each set ends in setMemoryCache.  The items are     *)
(* folded in order: the map after the first half is computed, then the     *)
(* second half is folded into it.                                          *)
RECURSIVE preloadMemory(_, _)
preloadMemory(m, items) ==
  IF items = <<>> THEN m
  ELSE IF Len(items) = 1
  THEN setMemoryCache(m, items[1].key, wrapData(items[1].data, items[1].ttl))
  ELSE LET half == Len(items) \div 2
           m1 == preloadMemory(m, SubSeq(items, 1, half))
       IN IF Len(m1) > 0 THEN preloadMemory(m1, SubSeq(items, half + 1, Len(items))) ELSE m1

preload_call(items) ==
  /\ memoryCache' = preloadMemory(memoryCache, items)
  /\ last' = Ev("preload", "preload", <<>>, Null)
  /\ called
  /\ UNCHANGED <<now, localStorage, cacheStorage, pendingRevalidations, procs, latest, bgCalls>>
  /\ UNCHANGED pageVars

----------------------------------------------------------------------------
(* get(key) *)

get_call(key) ==
  /\ last' = Ev("get", "get", key, get(key))
  /\ UNCHANGED <<now, localStorage, memoryCache, cacheStorage,
                 pendingRevalidations, procs, latest, bgCalls, calls>>
  /\ UNCHANGED pageVars

----------------------------------------------------------------------------
(* getAsync(key): get, and on a miss the Cache API entry, read in two      *)
(* awaited steps (cache.match, then response.json and the back-fill)       *)

getAsync_call(key) ==
  /\ IF get(key) # Null
     THEN /\ last' = Ev("getAsync", "getAsync", key, get(key))
          /\ UNCHANGED procs
     ELSE /\ Len(procs) < MaxProcs
          /\ procs' = Append(procs, Proc("getAsync", "match", key, Null, 0, "none", NoEntry))
          /\ last' = Ev("getAsync_call", "getAsync", key, Null)
  /\ called
  /\ UNCHANGED <<now, localStorage, memoryCache, cacheStorage,
                 pendingRevalidations, latest, bgCalls>>
  /\ UNCHANGED pageVars

getAsync_match(i) ==
  LET p == procs[i] IN
  /\ p.kind = "getAsync" /\ p.stage = "match"
  /\ procs' = [procs EXCEPT ![i].stage = "json", ![i].w = getCacheAPI(p.key)]
  /\ last' = None
  /\ UNCHANGED <<now, localStorage, memoryCache, cacheStorage,
                 pendingRevalidations, latest, bgCalls, calls>>
  /\ UNCHANGED pageVars

(* Faulty variant: the back-fill wraps the data anew, with the time of the  *)
(* read, instead of storing the entry it found                             *)
getAsync_done_rewrap(i, lsOK) ==
  LET p == procs[i]
      wrapped == p.w
  IN
  /\ p.kind = "getAsync" /\ p.stage = "json"
  /\ IF wrapped # NoEntry /\ ~isExpired(wrapped)
     THEN /\ localStorage' = IF lsOK
                             THEN setLocalStorage(localStorage, p.key,
                                                  wrapData(dataOf(wrapped), wrapped.ttl))
                             ELSE localStorage
          /\ last' = [Ev("getAsync", "getAsync", p.key, dataOf(wrapped))
                        EXCEPT !.found = wrapped, !.awaited = TRUE, !.ls = lsOK]
     ELSE /\ lsOK
          /\ last' = [Ev("getAsync", "getAsync", p.key, Null)
                        EXCEPT !.found = wrapped, !.awaited = TRUE]
          /\ UNCHANGED localStorage
  /\ procs' = removeAt(procs, i)
  /\ UNCHANGED <<now, memoryCache, cacheStorage, pendingRevalidations, latest, bgCalls, calls>>
  /\ UNCHANGED pageVars

(* lsOK: whether the setItem of the back-fill succeeds; it is read only    *)
(* when there is something to back-fill                                    *)
getAsync_done(i, lsOK) ==
  LET p == procs[i]
      wrapped == p.w
  IN
  /\ p.kind = "getAsync" /\ p.stage = "json"
  /\ IF wrapped # NoEntry /\ ~isExpired(wrapped)
     THEN /\ localStorage' = IF lsOK THEN setLocalStorage(localStorage, p.key, wrapped)
                             ELSE localStorage
          /\ last' = [Ev("getAsync", "getAsync", p.key, dataOf(wrapped))
                        EXCEPT !.found = wrapped, !.awaited = TRUE, !.ls = lsOK]
     ELSE /\ lsOK
          /\ last' = [Ev("getAsync", "getAsync", p.key, Null)
                        EXCEPT !.found = wrapped, !.awaited = TRUE]
          /\ UNCHANGED localStorage
  /\ procs' = removeAt(procs, i)
  /\ UNCHANGED <<now, memoryCache, cacheStorage, pendingRevalidations, latest, bgCalls, calls>>
  /\ UNCHANGED pageVars

----------------------------------------------------------------------------
(* remove(key) and clear(): the synchronous part, then the awaited Cache   *)
(* API deletion                                                            *)

(* Faulty variant: remove gives up the revalidation of the key and its guard *)
remove_call_cancel(key) ==
  /\ Len(procs) < MaxProcs
  /\ localStorage' = removeLocalStorage(localStorage, key)
  /\ memoryCache' = dropItem(memoryCache, getCacheKey(key))
  /\ procs' = Append(SelectSeq(procs, LAMBDA p : ~(p.kind = "reval" /\ p.key = key)),
                     Proc("remove", "delete", key, Null, 0, "none", NoEntry))
  /\ pendingRevalidations' = pendingRevalidations \ {key}
  /\ last' = Ev("remove_call", "remove", key, Null)
  /\ noteWrite(key, NoEntry)
  /\ called
  /\ UNCHANGED <<now, cacheStorage>>
  /\ UNCHANGED pageVars

remove_call(key) ==
  /\ Len(procs) < MaxProcs
  /\ localStorage' = removeLocalStorage(localStorage, key)
  /\ memoryCache' = dropItem(memoryCache, getCacheKey(key))
  /\ procs' = Append(procs, Proc("remove", "delete", key, Null, 0, "none", NoEntry))
  /\ last' = Ev("remove_call", "remove", key, Null)
  /\ noteWrite(key, NoEntry)
  /\ called
  /\ UNCHANGED <<now, cacheStorage, pendingRevalidations>>
  /\ UNCHANGED pageVars

remove_done(i) ==
  LET p == procs[i] IN
  /\ p.kind = "remove"
  /\ cacheStorage' = {e \in cacheStorage : e.key # getCacheKey(p.key)}
  /\ procs' = removeAt(procs, i)
  /\ last' = Ev("remove", "remove", p.key, Null)
  /\ UNCHANGED <<now, localStorage, memoryCache, pendingRevalidations, latest, bgCalls, calls>>
  /\ UNCHANGED pageVars

(* for (let i = localStorage.length - 1; i >= 0; i--), with 0-based i;     *)
(* localStorage.key(i) is null past the end                                *)
RECURSIVE clearLoop(_, _)
clearLoop(ls, i) ==
  IF i < 0 THEN ls
  ELSE LET present == i + 1 <= Len(ls)
           key == IF present THEN ls[i + 1].key ELSE <<>>
       IN clearLoop(IF present /\ startsWith(key, Prefix) THEN dropItem(ls, key) ELSE ls,
                    i - 1)

(* Faulty variant: the loop runs forward, for (let i = 0; i < length; i++), *)
(* so that a removal moves the next key under the index just visited       *)
RECURSIVE forwardLoop(_, _)
forwardLoop(ls, i) ==
  IF i + 1 > Len(ls) THEN ls
  ELSE forwardLoop(IF startsWith(ls[i + 1].key, Prefix) THEN dropItem(ls, ls[i + 1].key) ELSE ls,
                   i + 1)

clearLocalStorage_forward(ls) == forwardLoop(ls, 0)

clearLocalStorage(ls) == clearLoop(ls, Len(ls) - 1)

clear_call ==
  /\ Len(procs) < MaxProcs
  /\ localStorage' = clearLocalStorage(localStorage)
  /\ memoryCache' = <<>>
  /\ procs' = Append(procs, Proc("clear", "delete", <<>>, Null, 0, "none", NoEntry))
  /\ last' = [Ev("clear_call", "clear", <<>>, Null) EXCEPT !.before = localStorage]
  /\ latest' = noEntries
  /\ bgCalls' = [k \in Keys |-> 0]
  /\ called
  /\ UNCHANGED <<now, cacheStorage, pendingRevalidations>>
  /\ UNCHANGED pageVars

(* caches.delete(CACHE_NAME) *)
clear_done(i) ==
  LET p == procs[i] IN
  /\ p.kind = "clear"
  /\ cacheStorage' = {}
  /\ procs' = removeAt(procs, i)
  /\ last' = Ev("clear", "clear", <<>>, Null)
  /\ UNCHANGED <<now, localStorage, memoryCache, pendingRevalidations, latest, bgCalls, calls>>
  /\ UNCHANGED pageVars

(* Other code of the same origin writes and removes its own localStorage keys *)
foreign_setItem(k) ==
  /\ ~hasKey(localStorage, k)
  /\ Cardinality({i \in 1..Len(localStorage) : localStorage[i].key \in ForeignKeys}) < MaxForeign
  /\ localStorage' = putItem(localStorage, k, [raw |-> "other"])
  /\ last' = None
  /\ UNCHANGED <<now, memoryCache, cacheStorage, pendingRevalidations, procs,
                 latest, bgCalls, calls>>
  /\ UNCHANGED pageVars

(* A string that is not JSON is found under a key of the cache, written by *)
(* other code of the origin or by an earlier version                       *)
corrupt(key) ==
  /\ localStorage' = putItem(localStorage, getCacheKey(key), [raw |-> "not json"])
  /\ localStorage' # localStorage
  /\ last' = None
  /\ UNCHANGED <<now, memoryCache, cacheStorage, pendingRevalidations, procs,
                 latest, bgCalls, calls>>
  /\ UNCHANGED pageVars

(* getCacheAPI's catch: caches.open, cache.match or response.json rejects  *)
(* and getCacheAPI returns null                                            *)
getAsync_fail(i) ==
  LET p == procs[i] IN
  /\ p.kind = "getAsync"
  /\ procs' = removeAt(procs, i)
  /\ last' = [Ev("getAsync", "getAsync", p.key, Null) EXCEPT !.awaited = TRUE]
  /\ UNCHANGED <<now, localStorage, memoryCache, cacheStorage, pendingRevalidations,
                 latest, bgCalls, calls>>
  /\ UNCHANGED pageVars

(* The catch of remove and of clear: the Cache API deletion rejects and is *)
(* ignored                                                                 *)
delete_fail(i) ==
  LET p == procs[i] IN
  /\ p.kind \in {"remove", "clear"}
  /\ procs' = removeAt(procs, i)
  /\ last' = [Ev(p.kind, p.kind, p.key, Null) EXCEPT !.mirror = "failed"]
  /\ UNCHANGED <<now, localStorage, memoryCache, cacheStorage, pendingRevalidations,
                 latest, bgCalls, calls>>
  /\ UNCHANGED pageVars

(* getStats() *)
getStats ==
  [localStorageItems |->
     Cardinality({i \in 1..Len(localStorage) : startsWith(localStorage[i].key, Prefix)}),
   memoryCacheItems |-> Len(memoryCache),
   pendingRevalidations |-> Cardinality(pendingRevalidations)]

getStats_call ==
  /\ last' = [Ev("getStats", "getStats", <<>>, "stats") EXCEPT !.found = getStats]
  /\ called
  /\ UNCHANGED <<now, localStorage, memoryCache, cacheStorage, pendingRevalidations,
                 procs, latest, bgCalls>>
  /\ UNCHANGED pageVars

----------------------------------------------------------------------------
(* getStaleWhileRevalidate(key, fetchFn, {ttl, onUpdate}) *)

(* Faulty variant: no check of pendingRevalidations before the fetch *)
revalidateInBackground_noGuard(key, ttl, cb, ev) ==
  /\ Len(procs) < MaxProcs
  /\ pendingRevalidations' = pendingRevalidations \cup {key}
  /\ procs' = Append(procs, Proc("reval", "fetch", key, Null, ttl, cb, NoEntry))
  /\ bgCalls' = IF key \in DOMAIN bgCalls THEN [bgCalls EXCEPT ![key] = bump(@)] ELSE bgCalls
  /\ last' = [ev EXCEPT !.started = TRUE]

(* Faulty variant: a call that finds the guard set hands its onUpdate to   *)
(* the revalidation in flight                                              *)
revalidateInBackground_adopt(key, ttl, cb, ev) ==
  IF key \in pendingRevalidations
  THEN /\ last' = ev
       /\ procs' = [i \in 1..Len(procs) |->
                      IF procs[i].kind = "reval" /\ procs[i].key = key
                      THEN [procs[i] EXCEPT !.cb = cb] ELSE procs[i]]
       /\ UNCHANGED <<pendingRevalidations, bgCalls>>
  ELSE /\ Len(procs) < MaxProcs
       /\ pendingRevalidations' = pendingRevalidations \cup {key}
       /\ procs' = Append(procs, Proc("reval", "fetch", key, Null, ttl, cb, NoEntry))
       /\ bgCalls' = IF key \in DOMAIN bgCalls THEN [bgCalls EXCEPT ![key] = bump(@)] ELSE bgCalls
       /\ last' = [ev EXCEPT !.started = TRUE]

(* revalidateInBackground up to its await of fetchFn: the guard, and the   *)
(* call of fetchFn.  ev is what the caller returns.                        *)
revalidateInBackground(key, ttl, cb, ev) ==
  IF key \in pendingRevalidations
  THEN /\ last' = ev
       /\ UNCHANGED <<pendingRevalidations, procs, bgCalls>>
  ELSE /\ Len(procs) < MaxProcs
       /\ pendingRevalidations' = pendingRevalidations \cup {key}
       /\ procs' = Append(procs, Proc("reval", "fetch", key, Null, ttl, cb, NoEntry))
       /\ bgCalls' = IF key \in DOMAIN bgCalls THEN [bgCalls EXCEPT ![key] = bump(@)] ELSE bgCalls
       /\ last' = [ev EXCEPT !.started = TRUE]

(* const wrapped = getLocalStorage(key) || getMemoryCache(key) *)
lookup(key) ==
  IF getLocalStorage(key) # NoEntry THEN getLocalStorage(key) ELSE getMemoryCache(key)

getStaleWhileRevalidate(key, ttl, cb) ==
  LET wrapped == lookup(key)
      expired == isExpired(wrapped)
      stale == isStale(wrapped)
      served == [Ev("swr", "swr", key, dataOf(wrapped)) EXCEPT
                   !.found = wrapped, !.guarded = key \in pendingRevalidations,
                   !.cb = cb]
  IN
  /\ CASE wrapped # NoEntry /\ ~expired /\ ~stale ->
            /\ last' = served
            /\ UNCHANGED <<pendingRevalidations, procs, bgCalls>>
       [] wrapped # NoEntry /\ ~expired /\ stale ->
            revalidateInBackground(key, ttl, cb, served)
       [] wrapped # NoEntry /\ expired /\ dataOf(wrapped) # Undefined ->
            revalidateInBackground(key, ttl, cb, served)
       [] OTHER ->
            /\ Len(procs) < MaxProcs
            /\ procs' = Append(procs, Proc("swr", "fetch", key, Null, ttl, cb, wrapped))
            /\ last' = [Ev("swr_call", "swr", key, Null) EXCEPT
                          !.found = wrapped, !.awaited = TRUE,
                          !.guarded = key \in pendingRevalidations]
            /\ UNCHANGED <<pendingRevalidations, bgCalls>>
  /\ called
  /\ UNCHANGED <<now, localStorage, memoryCache, cacheStorage, latest>>
  /\ UNCHANGED pageVars

(* fetchFn resolves with freshData: set(key, freshData, ttl) runs *)
fetch_resolve(i, freshData, lsOK) ==
  LET p == procs[i] IN
  /\ p.stage = "fetch"
  /\ setSync([p EXCEPT !.stage = "mirror", !.data = freshData,
                       !.w = wrapData(freshData, p.ttl)], i, lsOK)
  /\ UNCHANGED calls
  /\ UNCHANGED pageVars

(* Faulty variant: the guard is dropped only after a successful set, not   *)
(* in a finally block                                                      *)
fetch_reject_noFinally(i) ==
  LET p == procs[i] IN
  /\ p.stage = "fetch"
  /\ procs' = removeAt(procs, i)
  /\ IF p.kind = "reval"
     THEN last' = Ev("revalidation_failed", "reval", p.key, Null)
     ELSE last' = [Ev("swr", "swr", p.key,
                      IF p.w # NoEntry /\ dataOf(p.w) # Undefined
                      THEN dataOf(p.w) ELSE "rejected")
                     EXCEPT !.found = p.w, !.awaited = TRUE]
  /\ UNCHANGED <<now, localStorage, memoryCache, cacheStorage, pendingRevalidations,
                 latest, bgCalls, calls>>
  /\ UNCHANGED pageVars

(* fetchFn rejects: the background revalidation logs it and leaves the     *)
(* guard set; the awaiting caller gets the entry it found, if that had     *)
(* data, and the error otherwise                                           *)
fetch_reject(i) ==
  LET p == procs[i] IN
  /\ p.stage = "fetch"
  /\ procs' = removeAt(procs, i)
  /\ IF p.kind = "reval"
     THEN /\ pendingRevalidations' = pendingRevalidations \ {p.key}
          /\ last' = Ev("revalidation_failed", "reval", p.key, Null)
     ELSE /\ last' = [Ev("swr", "swr", p.key,
                         IF p.w # NoEntry /\ dataOf(p.w) # Undefined
                         THEN dataOf(p.w) ELSE "rejected")
                        EXCEPT !.found = p.w, !.awaited = TRUE]
          /\ UNCHANGED pendingRevalidations
  /\ UNCHANGED <<now, localStorage, memoryCache, cacheStorage, latest, bgCalls, calls>>
  /\ UNCHANGED pageVars

----------------------------------------------------------------------------
(* Date.now() advances between two handlers *)

tick ==
  /\ \E t \in Instants : t > now /\ now' = t
  /\ last' = None
  /\ UNCHANGED <<localStorage, memoryCache, cacheStorage, pendingRevalidations,
                 procs, latest, bgCalls, calls>>
  /\ UNCHANGED pageVars

----------------------------------------------------------------------------
(* StatsService (js/services/statsService.js) and the stats display of the *)
(* page (loadStats).  The repository holds two versions of the service:    *)
(* "live", whose get() always fetches, and "cached", whose get() answers   *)
(* from its memory cache or from localStorage while they are valid.        *)

Variants == {"live", "cached"}

StatsCacheDuration == 300000

(* getCacheKey('stats') of the service's configuration *)
StatsKey == <<"o", "m", "c", "_", "s">>

(* A source that failed: its promise rejected, or fetchLocalStats gave null *)
Failed == [failed |-> TRUE]

(* A promise that rejects, in place of the data it resolves with *)
Rejected == [rejected |-> TRUE]

(* What the sources answer when they answer.  tag_name is the tag after    *)
(* the leading v is removed.  updatedAt is left out of the data.           *)
GitHubResults == {Failed, [stargazers_count |-> 5000]}
NpmResults == {Failed, [downloads |-> 20000]}
ReleaseResults == {Failed, [tag_name |-> "4.1.0"]}
LocalResults == {Failed, [stars |-> 4000, downloads |-> 18000, agents |-> 32,
                          version |-> "4.0.0"]}

(* The data of doFetch's outer catch *)
FALLBACK == [stars |-> 4493, downloads |-> 19534, agents |-> 33, version |-> "4.0.2"]

(* x || d for numbers *)
orElse(x, d) == IF x = 0 THEN d ELSE x

allFailed(gh, npm, rel, loc) ==
  gh = Failed /\ npm = Failed /\ rel = Failed /\ loc = Failed

(* doFetch of the live version: the three APIs, gaps filled from the local *)
(* stats file, then the hardcoded values                                   *)
doFetchLive(gh, npm, rel, loc) ==
  LET d0 == [stars |-> IF gh = Failed THEN 0 ELSE orElse(gh.stargazers_count, 0),
             downloads |-> IF npm = Failed THEN 0 ELSE orElse(npm.downloads, 0),
             agents |-> 33,
             version |-> IF rel = Failed THEN "0.0.0" ELSE rel.tag_name]
      d1 == IF (gh = Failed \/ npm = Failed \/ rel = Failed) /\ loc # Failed
            THEN [stars |-> IF gh = Failed THEN orElse(loc.stars, d0.stars) ELSE d0.stars,
                  downloads |-> IF npm = Failed THEN orElse(loc.downloads, d0.downloads)
                                ELSE d0.downloads,
                  agents |-> orElse(loc.agents, d0.agents),
                  version |-> IF rel = Failed THEN loc.version ELSE d0.version]
            ELSE d0
  IN [stars |-> IF d1.stars = 0 THEN FALLBACK.stars ELSE d1.stars,
      downloads |-> IF d1.downloads = 0 THEN FALLBACK.downloads ELSE d1.downloads,
      agents |-> d1.agents,
      version |-> IF d1.version = "0.0.0" THEN FALLBACK.version ELSE d1.version]

(* doFetch of the cached version: the local stats file and the release,    *)
(* the two APIs only when there is no local stats file                     *)
doFetchCached(gh, npm, rel, loc) ==
  LET version == IF rel # Failed THEN rel.tag_name
                 ELSE IF loc # Failed THEN loc.version
                 ELSE "0.0.0"
  IN IF loc # Failed
     THEN [stars |-> orElse(loc.stars, 0), downloads |-> orElse(loc.downloads, 0),
           agents |-> orElse(loc.agents, 33), version |-> version]
     ELSE IF gh # Failed /\ npm # Failed
     THEN [stars |-> orElse(gh.stargazers_count, 0),
           downloads |-> orElse(npm.downloads, 0), agents |-> 33, version |-> version]
     ELSE [stars |-> FALLBACK.stars, downloads |-> FALLBACK.downloads,
           agents |-> 33, version |-> version]

(* Faulty variant: the failure of every source is passed on to the caller *)
doFetch_rethrow(variant, gh, npm, rel, loc) ==
  IF allFailed(gh, npm, rel, loc) THEN Rejected
  ELSE IF variant = "live" THEN doFetchLive(gh, npm, rel, loc)
  ELSE doFetchCached(gh, npm, rel, loc)

doFetch(variant, gh, npm, rel, loc) ==
  IF variant = "live" THEN doFetchLive(gh, npm, rel, loc)
  ELSE doFetchCached(gh, npm, rel, loc)

isCacheValid(timestamp) ==
  IF timestamp = 0 THEN FALSE ELSE now - timestamp < StatsCacheDuration

isCacheStale(timestamp) ==
  IF timestamp = 0 THEN TRUE ELSE 2 * (now - timestamp) > StatsCacheDuration

(* getLocalCache: the entry, or NoEntry for null; an entry that is not     *)
(* valid any more is removed                                               *)
localCacheEntry ==
  IF ~hasKey(localStorage, StatsKey) THEN NoEntry
  ELSE LET s == localStorage[indexOf(localStorage, StatsKey)].value
       IN IF ~parses(s) THEN NoEntry ELSE s

getLocalCache ==
  IF localCacheEntry = NoEntry THEN NoEntry
  ELSE IF ~isCacheValid(localCacheEntry.timestamp) THEN NoEntry
  ELSE localCacheEntry

afterGetLocalCache ==
  IF localCacheEntry # NoEntry /\ ~isCacheValid(localCacheEntry.timestamp)
  THEN dropItem(localStorage, StatsKey)
  ELSE localStorage

(* No fetch has settled since the page loaded, or since the service was    *)
(* created                                                                 *)
NoFetch == [settled |-> FALSE, outcome |-> "none", allFailed |-> FALSE,
            cold |-> FALSE, waiters |-> 0, refreshers |-> 0]

(* No call of the service yet.  op: the last call made or "settle";        *)
(* pending: a request was in flight when it was made; awaits: the caller   *)
(* got the promise of fetchFresh.                                          *)
NoCall == [op |-> "none", pending |-> FALSE, awaits |-> FALSE]

(* variant: the version of the service; pendingRequest: a doFetch is in    *)
(* flight; waiters: the loadStats calls that await it; cold: one of them   *)
(* found no cached stats at all; view: what the stats container shows;     *)
(* shown: the data it shows; fetch: how the last doFetch settled;          *)
(* inflight: the doFetch calls that have not settled; refreshers: the      *)
(* callers of refresh() that await the request; call: the last call.       *)
StatsInit(variant) ==
  [variant |-> variant, pendingRequest |-> FALSE, waiters |-> 0, cold |-> FALSE,
   inflight |-> 0, refreshers |-> 0, call |-> NoCall,
   memoryCache |-> NoEntry, memoryCacheTime |-> 0,
   view |-> "none", shown |-> NoEntry, statsLoaded |-> FALSE, fetch |-> NoFetch]

MaxLoads == 2

noCachedStats == stats.memoryCache = NoEntry /\ ~hasKey(localStorage, StatsKey)

(* Faulty variant: every call starts a doFetch of its own *)
fetchFresh_noCoalescing(s, awaited) ==
  [s EXCEPT !.pendingRequest = TRUE,
            !.inflight = @ + 1,
            !.waiters = IF awaited THEN @ + 1 ELSE @,
            !.cold = @ \/ (awaited /\ noCachedStats)]

(* fetchFresh, up to its await: a request in flight is shared, and doFetch *)
(* is called when there is none                                            *)
fetchFresh(s, awaited) ==
  [s EXCEPT !.pendingRequest = TRUE,
            !.inflight = IF s.pendingRequest THEN @ ELSE @ + 1,
            !.waiters = IF awaited THEN @ + 1 ELSE @,
            !.cold = @ \/ (awaited /\ noCachedStats)]

(* refreshInBackground when the cache it answers from is stale *)
refreshIfStale(s, timestamp) ==
  IF isCacheStale(timestamp) THEN fetchFresh(s, FALSE) ELSE s

rendered(s, data) ==
  [s EXCEPT !.view = "stats", !.shown = data, !.statsLoaded = TRUE]

(* The record of a call made in the present state *)
madeCall(s, op, awaits) ==
  [s EXCEPT !.call = [op |-> op, pending |-> stats.pendingRequest, awaits |-> awaits]]

(* loadStats: the skeletons, then statsService.get(); a get() that is      *)
(* answered from a cache is rendered at once                               *)
loadStats_call ==
  /\ stats.waiters < MaxLoads
  /\ LET s == [stats EXCEPT !.view = "skeleton", !.shown = NoEntry]
     IN IF stats.variant = "live"
        THEN /\ stats' = madeCall(fetchFresh(s, TRUE), "get", TRUE)
             /\ UNCHANGED localStorage
        ELSE IF stats.memoryCache # NoEntry /\ isCacheValid(stats.memoryCacheTime)
        THEN /\ stats' = madeCall(rendered(refreshIfStale(s, stats.memoryCacheTime),
                                         stats.memoryCache), "get", FALSE)
             /\ UNCHANGED localStorage
        ELSE IF getLocalCache # NoEntry
        THEN /\ stats' = madeCall(rendered(refreshIfStale(
                                    [s EXCEPT !.memoryCache = getLocalCache.data,
                                              !.memoryCacheTime = getLocalCache.timestamp],
                                    getLocalCache.timestamp),
                                  getLocalCache.data), "get", FALSE)
             /\ UNCHANGED localStorage
        ELSE /\ stats' = madeCall(fetchFresh(s, TRUE), "get", TRUE)
             /\ localStorage' = afterGetLocalCache
  /\ UNCHANGED storageVars
  /\ UNCHANGED searchVars

(* statsService.refresh() by a caller that awaits it *)
refreshStats_call ==
  /\ stats.refreshers < MaxLoads
  /\ stats' = madeCall([fetchFresh(stats, FALSE) EXCEPT !.refreshers = @ + 1],
                     "refresh", TRUE)
  /\ UNCHANGED localStorage
  /\ UNCHANGED storageVars
  /\ UNCHANGED searchVars

(* The doFetch in flight settles: updateCache, pendingRequest = null in    *)
(* fetchFresh's finally, and every loadStats that awaits it renders: the   *)
(* stats when the promise resolved, the error state when it rejected.      *)
doFetch_settle(gh, npm, rel, loc, lsOK) ==
  /\ stats.pendingRequest
  /\ LET r == doFetch(stats.variant, gh, npm, rel, loc)
         ok == r # Rejected
         served == stats.waiters > 0
     IN /\ stats' = [stats EXCEPT
                       !.pendingRequest = FALSE, !.waiters = 0, !.cold = FALSE,
                       !.inflight = @ - 1, !.refreshers = 0,
                       !.call = [op |-> "settle", pending |-> TRUE, awaits |-> FALSE],
                       !.memoryCache = IF ok THEN r ELSE @,
                       !.memoryCacheTime = IF ok THEN now ELSE @,
                       !.view = IF ~served THEN @ ELSE IF ok THEN "stats" ELSE "error",
                       !.shown = IF ~served THEN @ ELSE IF ok THEN r ELSE NoEntry,
                       !.statsLoaded = @ \/ (served /\ ok),
                       !.fetch = [settled |-> TRUE,
                                  outcome |-> IF ok THEN "resolved" ELSE "rejected",
                                  allFailed |-> allFailed(gh, npm, rel, loc),
                                  cold |-> stats.cold, waiters |-> stats.waiters,
                                  refreshers |-> stats.refreshers]]
        /\ localStorage' = IF ok /\ lsOK
                           THEN putItem(localStorage, StatsKey,
                                        [data |-> r, timestamp |-> now])
                           ELSE localStorage
  /\ UNCHANGED storageVars
  /\ UNCHANGED searchVars

clearCache ==
  /\ stats' = [stats EXCEPT !.memoryCache = NoEntry, !.memoryCacheTime = 0,
                            !.call = [op |-> "clearCache",
                                      pending |-> stats.pendingRequest,
                                      awaits |-> FALSE]]
  /\ localStorage' = dropItem(localStorage, StatsKey)
  /\ <<stats'.memoryCache, stats'.memoryCacheTime, localStorage'>>
       # <<stats.memoryCache, stats.memoryCacheTime, localStorage>>
  /\ UNCHANGED storageVars
  /\ UNCHANGED searchVars

(* Time passes: past half of the cache duration, or past all of it *)
elapse ==
  /\ now <= MaxTime
  /\ \E d \in {StatsCacheDuration \div 2 + 1, StatsCacheDuration + 1} : now' = now + d
  /\ UNCHANGED <<localStorage, memoryCache, cacheStorage, pendingRevalidations,
                 procs, last, latest, bgCalls, calls>>
  /\ UNCHANGED pageVars

----------------------------------------------------------------------------
(* SearchService: the documentation search of the page.  Texts are         *)
(* sequences of characters.                                                *)

MaxLen == 3

Alphabet == {"a", "b", "c"}

(* The strings of at most n characters *)
Strs(n) == UNION {[1..k -> Alphabet] : k \in 0..n}

(* The texts of the fuzzy-match boundary: "a1b2c3", "abc", "cba" *)
BoundaryTexts == {<<"a", "1", "b", "2", "c", "3">>, <<"a", "b", "c">>, <<"c", "b", "a">>}

(* The while loop of fuzzyMatch, from (textIndex, patternIndex) on; the    *)
(* result is the patternIndex it ends with.  Indexes count from 0.         *)
RECURSIVE fuzzyScan_reuse(_, _, _, _)
(* Faulty variant: a matched character of the text is not consumed *)
fuzzyScan_reuse(text, pattern, textIndex, patternIndex) ==
  IF textIndex < Len(text) /\ patternIndex < Len(pattern)
  THEN IF text[textIndex + 1] = pattern[patternIndex + 1]
       THEN fuzzyScan_reuse(text, pattern, textIndex, patternIndex + 1)
       ELSE fuzzyScan_reuse(text, pattern, textIndex + 1, patternIndex)
  ELSE patternIndex

RECURSIVE fuzzyScan(_, _, _, _)
fuzzyScan(text, pattern, textIndex, patternIndex) ==
  IF textIndex < Len(text) /\ patternIndex < Len(pattern)
  THEN fuzzyScan(text, pattern, textIndex + 1,
                 IF text[textIndex + 1] = pattern[patternIndex + 1]
                 THEN patternIndex + 1 ELSE patternIndex)
  ELSE patternIndex

fuzzyMatch(text, pattern) == fuzzyScan(text, pattern, 0, 0) = Len(pattern)

NoProbe == [called |-> FALSE, text |-> <<>>, pattern |-> <<>>, result |-> FALSE]

(* fuzzyMatch(text, pattern), called directly *)
fuzzyMatch_call ==
  /\ ~probe.called
  /\ probe' = [probe EXCEPT !.called = TRUE,
                            !.result = fuzzyMatch(probe.text, probe.pattern)]
  /\ UNCHANGED <<storageVars, localStorage, stats, search, accordion>>

----------------------------------------------------------------------------
(* The scoring of the search index.  The characters of a query are        *)
(* letters and digits, the space, "-" and "(".  In a regular expression    *)
(* built from a query word the first three stand for themselves and an     *)
(* unmatched "(" is a syntax error.                                        *)

DefaultMaxResults == 10
MinQueryLength == 2
MinTextLength == 20
TextLimit == 200
DebounceMs == 150

UpperCase == <<"A", "B", "C", "D", "E", "F", "G", "H", "I", "J", "K", "L", "M", "N", "O", "P", "Q", "R", "S", "T", "U", "V", "W", "X", "Y", "Z">>
LowerCase == <<"a", "b", "c", "d", "e", "f", "g", "h", "i", "j", "k", "l", "m", "n", "o", "p", "q", "r", "s", "t", "u", "v", "w", "x", "y", "z">>
Digits == <<"0", "1", "2", "3", "4", "5", "6", "7", "8", "9">>

(* String.prototype.toLowerCase *)
LowerOf == [c \in {UpperCase[i] : i \in 1..Len(UpperCase)} |->
              LowerCase[CHOOSE i \in 1..Len(UpperCase) : UpperCase[i] = c]]

lowerChar(c) == IF c \in DOMAIN LowerOf THEN LowerOf[c] ELSE c

toLowerCase(s) == SubSeq([i \in 1..Len(s) |-> lowerChar(s[i])], 1, Len(s))

(* \w and \s of regular expressions *)
WordChars ==
  {UpperCase[i] : i \in 1..Len(UpperCase)} \cup {LowerCase[i] : i \in 1..Len(LowerCase)}
    \cup {Digits[i] : i \in 1..Len(Digits)} \cup {"_"}

isWordChar(c) == c \in WordChars

isSpace(c) == c = " "

(* String.prototype.includes *)
includes(text, word) ==
  \E i \in 1..(Len(text) - Len(word) + 1) :
    \A j \in 1..Len(word) : text[i + j - 1] = word[j]

(* String.prototype.split(/\s+/): the pieces between the runs of spaces;   *)
(* a leading or a trailing run leaves an empty piece                       *)
RECURSIVE splitFrom(_, _, _, _)
splitFrom(s, i, pieces, cur) ==
  IF i > Len(s) THEN Append(pieces, cur)
  ELSE IF isSpace(s[i])
  THEN IF i > 1 /\ isSpace(s[i - 1]) THEN splitFrom(s, i + 1, pieces, cur)
       ELSE splitFrom(s, i + 1, Append(pieces, cur), <<>>)
  ELSE splitFrom(s, i + 1, pieces, Append(cur, s[i]))

split(s) == splitFrom(s, 1, <<>>, <<>>)

RECURSIVE joinFrom(_, _)
joinFrom(words, i) ==
  IF i > Len(words) THEN <<>>
  ELSE IF i = Len(words) THEN words[i]
  ELSE words[i] \o <<" ">> \o joinFrom(words, i + 1)

(* String.prototype.trim, and cleanText: runs of whitespace become one     *)
(* space, then trim                                                        *)
cleanText(text) == joinFrom(SelectSeq(split(text), LAMBDA w : Len(w) > 0), 1)

firstNonSpace(s) ==
  IF \E i \in 1..Len(s) : ~isSpace(s[i])
  THEN CHOOSE i \in 1..Len(s) : ~isSpace(s[i]) /\ \A j \in 1..(i - 1) : isSpace(s[j])
  ELSE Len(s) + 1

lastNonSpace(s) ==
  IF \E i \in 1..Len(s) : ~isSpace(s[i])
  THEN CHOOSE i \in 1..Len(s) : ~isSpace(s[i]) /\ \A j \in (i + 1)..Len(s) : isSpace(s[j])
  ELSE 0

trim(s) == SubSeq(s, firstNonSpace(s), lastNonSpace(s))

(* new RegExp(word) throws a SyntaxError *)
regexThrows(word) == \E i \in 1..Len(word) : word[i] = "("

(* \b before position i of text *)
boundaryAt(text, i) ==
  (i > 1 /\ isWordChar(text[i - 1])) # (i <= Len(text) /\ isWordChar(text[i]))

(* new RegExp(`\\b${word}`, 'i').test(text), for a word that is a valid    *)
(* expression                                                              *)
regexTest(word, text) ==
  \E i \in 1..(Len(text) - Len(word) + 1) :
    /\ boundaryAt(text, i)
    /\ \A j \in 1..Len(word) : lowerChar(text[i + j - 1]) = lowerChar(word[j])

(* The forEach over queryWords, from word i on *)
RECURSIVE wordScores(_, _, _)
wordScores(item, queryWords, i) ==
  IF i > Len(queryWords) THEN 0
  ELSE (IF includes(toLowerCase(item.text), queryWords[i])
        THEN 3 + (IF regexTest(queryWords[i], item.text) THEN 2 ELSE 0)
        ELSE 0) + wordScores(item, queryWords, i + 1)

(* The score fuzzySearch gives an item *)
itemScore(item, query) ==
  LET textLower == toLowerCase(item.text)
      queryLower == toLowerCase(query)
  IN ((IF includes(textLower, queryLower)
       THEN 10 + (IF startsWith(textLower, queryLower) THEN 5 ELSE 0)
       ELSE 0)
      + wordScores(item, split(queryLower), 1)
      + (IF fuzzyMatch(textLower, queryLower) THEN 2 ELSE 0)) * item.weight

(* Scoring the item throws: a word the item contains is not a valid        *)
(* regular expression                                                      *)
itemThrows(item, query) ==
  LET queryWords == split(toLowerCase(query))
  IN \E i \in 1..Len(queryWords) :
       includes(toLowerCase(item.text), queryWords[i]) /\ regexThrows(queryWords[i])

(* Array.prototype.sort with (a, b) => key(b) - key(a): descending and     *)
(* stable; keys[i] is the key of seq[i]                                    *)
sortDescending(seq, keys) ==
  LET n == Len(seq)
      rank(i) == Cardinality({j \in 1..n : keys[j] > keys[i]})
                 + Cardinality({j \in 1..(i - 1) : keys[j] = keys[i]}) + 1
  IN [r \in 1..n |-> seq[CHOOSE i \in 1..n : rank(i) = r]]

slice(seq, n) == SubSeq(seq, 1, IF Len(seq) < n THEN Len(seq) ELSE n)

(* fuzzySearch(query) over an index: the results, or the exception *)
fuzzySearch(index, query, maxResults) ==
  IF \E i \in 1..Len(index) : itemThrows(index[i], query)
  THEN [threw |-> TRUE, results |-> <<>>]
  ELSE LET scored == [i \in 1..Len(index) |->
                        [item |-> index[i], score |-> itemScore(index[i], query)]]
           results == SelectSeq(scored, LAMBDA r : r.score > 0)
       IN [threw |-> FALSE,
           results |-> slice(sortDescending(results,
                                            [i \in 1..Len(results) |-> results[i].score]),
                             maxResults)]

----------------------------------------------------------------------------
(* The page content the index is built from: either no content root, or    *)
(* the heading and text elements inside it, in document order.  An element *)
(* is [tag, text, id, section]: id is <<>> when the element has none;      *)
(* section numbers the enclosing section or article, 0 when there is none. *)

NoRoot == <<[tag |-> "none", text |-> <<>>, id |-> <<>>, section |-> 0]>>

El(tag, text, id, section) == [tag |-> tag, text |-> text, id |-> id, section |-> section]

HeadingTags == <<"h1", "h2", "h3", "h4", "h5", "h6">>

isHeading(el) == \E l \in 1..Len(HeadingTags) : HeadingTags[l] = el.tag

(* parseInt(heading.tagName[1]) *)
levelOf(el) == CHOOSE l \in 1..Len(HeadingTags) : HeadingTags[l] = el.tag

AlnumChars == {LowerCase[i] : i \in 1..Len(LowerCase)} \cup {Digits[i] : i \in 1..Len(Digits)}

isAlnum(c) == c \in AlnumChars

(* toLowerCase().replace(/[^a-z0-9]+/g, '-') *)
RECURSIVE slugFrom(_, _)
slugFrom(s, i) ==
  IF i > Len(s) THEN <<>>
  ELSE IF isAlnum(s[i]) THEN <<s[i]>> \o slugFrom(s, i + 1)
  ELSE IF i > 1 /\ ~isAlnum(s[i - 1]) THEN slugFrom(s, i + 1)
  ELSE <<"-">> \o slugFrom(s, i + 1)

(* .replace(/^-|-$/g, '') *)
stripDashes(s) ==
  LET a == IF Len(s) > 0 /\ s[1] = "-" THEN SubSeq(s, 2, Len(s)) ELSE s
  IN IF Len(a) > 0 /\ a[Len(a)] = "-" THEN SubSeq(a, 1, Len(a) - 1) ELSE a

RECURSIVE decimal(_)
decimal(k) ==
  IF k < 10 THEN <<Digits[k + 1]>>
  ELSE decimal(k \div 10) \o <<Digits[(k % 10) + 1]>>

(* document.getElementById(id), over the elements of the content *)
hasElement(content, id) ==
  id # <<>> /\ \E i \in 1..Len(content) : content[i].id = id

(* generateId: the slug of the heading, with the first counter that makes  *)
(* it an id no element has                                                 *)
generateId(content, heading) ==
  LET base == stripDashes(slugFrom(toLowerCase(heading.text), 1))
      candidate(k) == IF k = 0 THEN base ELSE base \o <<"-">> \o decimal(k)
      k == CHOOSE n \in 0..Len(content) :
             /\ ~hasElement(content, candidate(n))
             /\ \A m \in 0..(n - 1) : hasElement(content, candidate(m))
  IN candidate(k)

(* The first loop of buildIndex gives every heading without an id one *)
RECURSIVE assignIds(_, _)
assignIds(content, i) ==
  IF i > Len(content) THEN content
  ELSE IF isHeading(content[i]) /\ content[i].id = <<>>
  THEN assignIds([content EXCEPT ![i].id = generateId(content, content[i])], i + 1)
  ELSE assignIds(content, i + 1)

(* getContext: the first h1, h2 or h3 of the enclosing section, unless it  *)
(* is the heading itself                                                   *)
getContext(content, i) ==
  LET tops == {j \in 1..Len(content) :
                 /\ content[j].section = content[i].section
                 /\ isHeading(content[j]) /\ levelOf(content[j]) <= 3}
  IN IF content[i].section = 0 \/ tops = {} THEN <<>>
     ELSE LET j == CHOOSE j \in tops : \A m \in tops : j <= m
          IN IF j = i THEN <<>> ELSE cleanText(content[j].text)

(* findNearestHeading: the previous sibling of the element, or of the      *)
(* section that holds it, when that is a heading; 0 for null               *)
findNearestHeading(content, i) ==
  LET own == IF i > 1 /\ content[i - 1].section = content[i].section THEN i - 1 ELSE 0
      first == CHOOSE j \in 1..i :
                 /\ content[j].section = content[i].section
                 /\ \A m \in 1..(j - 1) : content[m].section # content[i].section
      outer == IF content[i].section # 0 /\ first > 1 /\ content[first - 1].section = 0
               THEN first - 1 ELSE 0
  IN IF own # 0 /\ isHeading(content[own]) THEN own
     ELSE IF outer # 0 /\ isHeading(content[outer]) THEN outer
     ELSE 0

headingEntry(content, i) ==
  [type |-> "heading", level |-> levelOf(content[i]),
   text |-> cleanText(content[i].text), id |-> content[i].id,
   context |-> getContext(content, i), weight |-> 7 - levelOf(content[i])]

contentEntry(content, i) ==
  LET text == cleanText(content[i].text)
      h == findNearestHeading(content, i)
  IN [type |-> "content", level |-> 0,
      text |-> slice(text, TextLimit),
      id |-> IF h = 0 THEN <<>> ELSE content[h].id,
      context |-> IF h = 0 THEN <<>> ELSE cleanText(content[h].text),
      weight |-> 1]

(* buildIndex: the index after it, and the content with the ids it gave *)
buildIndex(index, content) ==
  IF content = NoRoot THEN [index |-> index, content |-> content]
  ELSE LET withIds == assignIds(content, 1)
           all == [i \in 1..Len(withIds) |-> i]
           headings == SelectSeq(all, LAMBDA i : isHeading(withIds[i]))
           texts == SelectSeq(all, LAMBDA i :
                      ~isHeading(withIds[i])
                      /\ Len(cleanText(withIds[i].text)) >= MinTextLength)
           pushed == index
                     \o [n \in 1..Len(headings) |-> headingEntry(withIds, headings[n])]
                     \o [n \in 1..Len(texts) |-> contentEntry(withIds, texts[n])]
       IN [index |-> sortDescending(pushed, [n \in 1..Len(pushed) |-> pushed[n].weight]),
           content |-> withIds]

----------------------------------------------------------------------------
(* The search widget *)

(* set: the timeout that debounceTimer names is live; value: the value of  *)
(* the input when it was scheduled; delay: its delay; stale: the live      *)
(* timeouts of the input handler that debounceTimer names no more;         *)
(* cancelled: scheduling it cancelled a pending one                        *)
NoTimer == [set |-> FALSE, value |-> <<>>, delay |-> 0, stale |-> 0, cancelled |-> FALSE]

(* burst: the timeout that ran this search had cancelled an earlier one *)
NoSearch == [op |-> "none", query |-> <<>>, searched |-> FALSE, threw |-> FALSE,
             wasOpen |-> FALSE, activated |-> -1, burst |-> FALSE]

(* content: the page content; index, maxResults, isOpen, selectedIndex:    *)
(* the fields of the instance; value: the value of the search input;       *)
(* timer: the debounce timer; items: the result items in the results       *)
(* container; message: the container holds the no-results message;         *)
(* selected: the positions of the items that carry the class selected;     *)
(* visible: the results container carries the class visible; focus: where  *)
(* the keyboard focus is; ev: what the handler that ran last did.          *)
SearchInit(content, maxResults) ==
  LET built == buildIndex(<<>>, content)
  IN [content |-> built.content, index |-> built.index, maxResults |-> maxResults,
      value |-> <<>>, timer |-> NoTimer, items |-> <<>>, message |-> FALSE,
      selectedIndex |-> -1, selected |-> {}, isOpen |-> FALSE, visible |-> FALSE,
      focus |-> "page", ev |-> NoSearch]

open(s) == [s EXCEPT !.isOpen = TRUE, !.visible = TRUE]

close(s) == [s EXCEPT !.isOpen = FALSE, !.visible = FALSE]

clearResults(s) ==
  [s EXCEPT !.items = <<>>, !.message = FALSE, !.selectedIndex = -1, !.selected = {}]

(* highlightMatch builds a regular expression from every non-empty word   *)
(* of the query, for every result                                          *)
renderThrows(results, query) ==
  LET queryWords == SelectSeq(split(toLowerCase(query)), LAMBDA w : Len(w) > 0)
  IN results # <<>> /\ \E i \in 1..Len(queryWords) : regexThrows(queryWords[i])

(* Faulty variant: a rendering leaves selectedIndex as it is *)
renderResults_keepIndex(s, results) ==
  IF results = <<>>
  THEN [s EXCEPT !.items = <<>>, !.message = TRUE, !.selected = {}]
  ELSE [s EXCEPT !.items = results, !.message = FALSE, !.selected = {0}]

renderResults(s, results) ==
  IF results = <<>>
  THEN [s EXCEPT !.items = <<>>, !.message = TRUE, !.selected = {}]
  ELSE [s EXCEPT !.items = results, !.message = FALSE, !.selectedIndex = 0,
                 !.selected = {0}]

(* performSearch(query): the widget after it, with what it did in ev; an   *)
(* exception leaves the results container as it was                        *)
performSearch(s, op, rawQuery) ==
  LET query == trim(rawQuery)
      found == fuzzySearch(s.index, query, s.maxResults)
      e == [NoSearch EXCEPT !.op = op, !.query = query, !.wasOpen = s.isOpen]
  IN IF Len(query) < MinQueryLength THEN [clearResults(s) EXCEPT !.ev = e]
     ELSE IF found.threw THEN [s EXCEPT !.ev = [e EXCEPT !.searched = TRUE, !.threw = TRUE]]
     ELSE IF renderThrows(found.results, query)
     THEN [s EXCEPT !.ev = [e EXCEPT !.searched = TRUE, !.threw = TRUE]]
     ELSE [renderResults(s, found.results) EXCEPT !.ev = [e EXCEPT !.searched = TRUE]]

otherVars == <<storageVars, localStorage, stats, probe, accordion>>

(* The search input receives the focus: by a click on it, by the Tab key,  *)
(* or by "/" pressed outside of an input                                   *)
focus_input ==
  /\ search.focus # "input"
  /\ search' = [open(search) EXCEPT !.focus = "input",
                                    !.ev = [NoSearch EXCEPT !.op = "focus",
                                                            !.wasOpen = search.isOpen]]
  /\ UNCHANGED otherVars

(* Faulty variant: the timeout scheduled before is not cleared *)
input_event_noClear(value) ==
  /\ search.focus = "input"
  /\ value # search.value
  /\ search' = [search EXCEPT !.value = value,
                              !.timer = [set |-> TRUE, value |-> value,
                                         delay |-> DebounceMs,
                                         stale |-> IF search.timer.set
                                                   THEN search.timer.stale + 1
                                                   ELSE search.timer.stale,
                                         cancelled |-> FALSE],
                              !.ev = [NoSearch EXCEPT !.op = "input",
                                                      !.wasOpen = search.isOpen]]
  /\ UNCHANGED otherVars

(* An input event: clearTimeout(this.debounceTimer) cancels the pending    *)
(* search, setTimeout schedules a new one                                  *)
input_event(value) ==
  /\ search.focus = "input"
  /\ value # search.value
  /\ search' = [search EXCEPT !.value = value,
                              !.timer = [set |-> TRUE, value |-> value,
                                         delay |-> DebounceMs,
                                         stale |-> search.timer.stale,
                                         cancelled |-> search.timer.set],
                              !.ev = [NoSearch EXCEPT !.op = "input",
                                                      !.wasOpen = search.isOpen]]
  /\ UNCHANGED otherVars

(* A timeout of the input handler is live *)
timerDue == search.timer.set \/ search.timer.stale > 0

(* A timeout of the input handler fires, the oldest first: the callback    *)
(* reads e.target.value, the value the input has by then                   *)
timer_fire ==
  /\ timerDue
  /\ search' = [performSearch(search, "typed", search.value) EXCEPT
                  !.ev.burst = search.timer.cancelled,
                  !.timer = IF search.timer.stale > 0
                            THEN [search.timer EXCEPT !.stale = @ - 1]
                            ELSE NoTimer]
  /\ UNCHANGED otherVars

(* search(query) of the public API; open() is not reached when             *)
(* performSearch throws                                                    *)
search_call(query) ==
  /\ LET s == performSearch([search EXCEPT !.value = query], "search", query)
     IN search' = IF s.ev.threw THEN s ELSE open(s)
  /\ UNCHANGED otherVars

updateSelection(s) ==
  [s EXCEPT !.selected = {i \in 0..(Len(s.items) - 1) : i = s.selectedIndex}]

(* Faulty variant: the selection stops at the last item *)
selectNext_clamp(s) ==
  IF Len(s.items) = 0 THEN s
  ELSE updateSelection([s EXCEPT !.selectedIndex =
         IF s.selectedIndex + 1 < Len(s.items) THEN s.selectedIndex + 1
         ELSE Len(s.items) - 1])

selectNext(s) ==
  IF Len(s.items) = 0 THEN s
  ELSE updateSelection([s EXCEPT !.selectedIndex = (s.selectedIndex + 1) % Len(s.items)])

selectPrevious(s) ==
  IF Len(s.items) = 0 THEN s
  ELSE updateSelection([s EXCEPT !.selectedIndex =
                          (s.selectedIndex - 1 + Len(s.items)) % Len(s.items)])

(* navigateToResult: the target of the item, when the page has it, is      *)
(* scrolled to and focused; the panel closes                               *)
navigateToResult(s, i) ==
  LET id == s.items[i + 1].item.id
  IN close([s EXCEPT !.focus = IF hasElement(s.content, id) THEN "target" ELSE @,
                     !.ev.activated = i])

activateSelected(s) ==
  IF s.selectedIndex >= 0 /\ s.selectedIndex < Len(s.items)
  THEN navigateToResult(s, s.selectedIndex)
  ELSE s

KeyNames == {"Escape", "ArrowDown", "ArrowUp", "Enter"}

(* The keydown handler of the document *)
keydown(key) ==
  /\ LET e == [NoSearch EXCEPT !.op = key, !.wasOpen = search.isOpen]
         s0 == [search EXCEPT !.ev = e]
         s1 == IF key = "Escape" /\ s0.isOpen
               THEN [close(s0) EXCEPT !.focus = IF @ = "input" THEN "page" ELSE @]
               ELSE s0
     IN search' = IF ~s1.isOpen THEN s1
                  ELSE IF key = "ArrowDown" THEN selectNext(s1)
                  ELSE IF key = "ArrowUp" THEN selectPrevious(s1)
                  ELSE IF key = "Enter" THEN activateSelected(s1)
                  ELSE s1
  /\ UNCHANGED otherVars

(* A click outside of the search widget *)
click_outside ==
  /\ search' = [close(search) EXCEPT !.focus = IF @ = "input" THEN "page" ELSE @,
                                     !.ev = [NoSearch EXCEPT !.op = "outside",
                                                             !.wasOpen = search.isOpen]]
  /\ UNCHANGED otherVars

(* A click on a result item of the visible panel; the press of the button  *)
(* takes the focus from the input                                          *)
click_result(i) ==
  /\ search.visible
  /\ i < Len(search.items)
  /\ search' = navigateToResult(
                 [search EXCEPT !.focus = IF @ = "input" THEN "page" ELSE @,
                                !.ev = [NoSearch EXCEPT !.op = "click",
                                                        !.wasOpen = search.isOpen]], i)
  /\ UNCHANGED otherVars

(* Faulty variant: the index is rebuilt on top of the old one *)
refresh_keep(s) ==
  LET built == buildIndex(s.index, s.content)
  IN [s EXCEPT !.index = built.index, !.content = built.content]

(* refresh(): this.index = []; this.buildIndex() *)
refresh(s) ==
  LET built == buildIndex(<<>>, s.content)
  IN [s EXCEPT !.index = built.index, !.content = built.content]

refresh_call ==
  /\ search' = [refresh(search) EXCEPT !.ev = [NoSearch EXCEPT !.op = "refresh",
                                                               !.wasOpen = search.isOpen]]
  /\ UNCHANGED otherVars

(* The pages and the queries of the model *)

GettingStarted == <<"G", "e", "t", "t", "i", "n", "g", " ", "S", "t", "a", "r", "t", "e", "d">>
Installation == <<"I", "n", "s", "t", "a", "l", "l", "a", "t", "i", "o", "n">>
RunTheInstaller == <<"R", "u", "n", " ", "t", "h", "e", " ", "i", "n", "s", "t", "a", "l", "l", "e", "r", " ", "f", "r", "o", "m", " ", "y", "o", "u", "r", " ", "t", "e", "r", "m", "i", "n", "a", "l", " ", "t", "o", " ", "b", "e", "g", "i", "n", " ", "s", "e", "t", "u", "p", " ", "q", "u", "i", "c", "k", "l", "y", ".">>

(* The page of the end-to-end example *)
ExamplePage ==
  <<El("h1", GettingStarted, <<>>, 0), El("h2", Installation, <<>>, 0),
    El("p", RunTheInstaller, <<>>, 0)>>

(* A page with a repeated heading, a heading that has an id and holds a    *)
(* call, a short paragraph and sections                                    *)
ApiPage ==
  <<El("h2", <<"S", "e", "t", "u", "p">>, <<>>, 1), El("p", <<"C", "a", "l", "l", "s", " ", " ", "i", "n", "i", "t", "(", " ", "o", "n", "c", "e", " ", "a", "t", " ", "s", "e", "t", "u", "p", " ", "t", "i", "m", "e", ".">>, <<>>, 1),
    El("h2", <<"S", "e", "t", "u", "p">>, <<>>, 2), El("h3", <<"i", "n", "i", "t", "(">>, <<"a", "p", "i">>, 2), El("p", <<"S", "e", "e", " ", "i", "n", "i", "t">>, <<>>, 2)>>

Pages == {NoRoot, ExamplePage, ApiPage}

(* The pages the widget is exercised on *)
WidgetPages == {NoRoot, ApiPage}

Queries == {<<"i", "n", "s", "t", "a", "l", "l">>, <<"s", "e", "t">>, <<"i", "n", "i", "t", "(">>, <<"z", "z">>, <<" ", "s", " ">>}

MaxResultsOptions == {2, DefaultMaxResults}

(* Two headings of one level and one length, for a query of at most        *)
(* MaxWords words: the text of the first starts with the query, the text   *)
(* of the second holds it further on                                       *)

TextLen == 6
MaxWords == 3

RankWords == {<<"-">>, <<"x">>}
PadAlphabet == {"x", " "}

RankQueries ==
  {joinFrom(words, 1) : words \in UNION {[1..n -> RankWords] : n \in 1..MaxWords}}

Pads(n) == [1..n -> PadAlphabet]

PrefixTexts(query) ==
  {text \in {query \o pad : pad \in Pads(TextLen - Len(query))} : cleanText(text) = text}

InnerTexts(query) ==
  {text \in UNION {{pre \o query \o post : pre \in Pads(n),
                                           post \in Pads(TextLen - Len(query) - n)} :
                   n \in 1..(TextLen - Len(query))} :
     cleanText(text) = text /\ ~startsWith(text, query)}

(* Pages of up to MaxHeadings headings without an id, with texts of up to  *)
(* AnchorLen characters, followed by an element that may have an id        *)

MaxHeadings == 3
AnchorLen == 2

AnchorAlphabet == {"A", "a", "!"}

AnchorTexts == UNION {[1..n -> AnchorAlphabet] : n \in 1..AnchorLen}

AuthoredIds == {<<>>, <<"a">>, <<"a", "-", "1">>}

AnchorPage(texts, id) ==
  [i \in 1..Len(texts) |-> El("h2", texts[i], <<>>, 0)] \o <<El("p", <<"x">>, id, 0)>>

AnchorPages ==
  {AnchorPage(texts, id) : texts \in UNION {[1..n -> AnchorTexts] : n \in 1..MaxHeadings},
                           id \in AuthoredIds}

----------------------------------------------------------------------------
(* Accordion (components/accordion.js): the details elements of one        *)
(* accordion group.  open: the open attribute; expanded: the expanded      *)
(* class and aria-expanded of the summary; isAnimating: the flag of        *)
(* details._accordion; timer: the callback that open or close has passed   *)
(* to setTimeout and that has not run yet.                                 *)

MaxItems == 3

GroupItems == 1..MaxItems

ClosedItem == [open |-> FALSE, expanded |-> FALSE, isAnimating |-> FALSE, timer |-> "none"]

(* The event handled last: a toggle (click, Enter or Space on the summary) *)
(* or the callback of a timer, and the item it was about                   *)
NoAccordionEvent == [op |-> "none", item |-> 0]

(* A page without accordion *)
NoAccordion == [exclusive |-> FALSE, items |-> <<>>, ev |-> NoAccordionEvent]

(* open(details, animate) *)
openDetails(items, i, animate) ==
  IF items[i].isAnimating THEN items
  ELSE IF ~animate THEN [items EXCEPT ![i].open = TRUE, ![i].expanded = TRUE]
  ELSE [items EXCEPT ![i].open = TRUE, ![i].expanded = TRUE,
                     ![i].isAnimating = TRUE, ![i].timer = "open"]

(* close(details), animated *)
closeDetails(items, i) ==
  IF items[i].isAnimating THEN items
  ELSE [items EXCEPT ![i].expanded = FALSE,
                     ![i].isAnimating = TRUE, ![i].timer = "close"]

(* closeOthersInGroup: close(sibling) for every open sibling.  The calls   *)
(* touch one item each, so that their order makes no difference.           *)
closeOthersInGroup(items, i) ==
  [j \in DOMAIN items |->
     IF j # i /\ items[j].open THEN closeDetails(items, j)[j] ELSE items[j]]

(* toggle(details) *)
toggle(a, i) ==
  IF a.items[i].open
  THEN closeDetails(a.items, i)
  ELSE IF a.exclusive
       THEN closeOthersInGroup(openDetails(a.items, i, TRUE), i)
       ELSE openDetails(a.items, i, TRUE)

(* enhance(details) at construction: the items that the page marks open   *)
(* are opened without animation                                            *)
AccordionInit(exclusive, opened) ==
  [exclusive |-> exclusive,
   items |-> [i \in GroupItems |->
                IF i \in opened THEN openDetails([j \in GroupItems |-> ClosedItem], i, FALSE)[i]
                ELSE ClosedItem],
   ev |-> NoAccordionEvent]

(* A click on the summary of item i, or Enter or Space on it *)
toggle_event(i) ==
  /\ i \in DOMAIN accordion.items
  /\ accordion' = [accordion EXCEPT !.items = toggle(accordion, i),
                                    !.ev = [op |-> "toggle", item |-> i]]
  /\ UNCHANGED <<storageVars, localStorage, stats, probe, search>>

(* The callback that open or close of item i passed to setTimeout runs *)
animation_done(i) ==
  /\ i \in DOMAIN accordion.items
  /\ accordion.items[i].timer # "none"
  /\ accordion' = [accordion EXCEPT
                     !.items[i].open = IF accordion.items[i].timer = "close" THEN FALSE ELSE @,
                     !.items[i].isAnimating = FALSE,
                     !.items[i].timer = "none",
                     !.ev = [op |-> "timeout", item |-> i]]
  /\ UNCHANGED <<storageVars, localStorage, stats, probe, search>>

----------------------------------------------------------------------------
(* The cache at page load *)

Init ==
  /\ now = 1
  /\ localStorage = <<>>
  /\ memoryCache = <<>>
  /\ cacheStorage = {}
  /\ pendingRevalidations = {}
  /\ procs = <<>>
  /\ last = None
  /\ latest = noEntries
  /\ bgCalls = [k \in Keys |-> 0]
  /\ calls = 0
  /\ stats = StatsInit("live")
  /\ probe = NoProbe
  /\ accordion = NoAccordion
  /\ search = SearchInit(NoRoot, DefaultMaxResults)

(* set, get, getAsync, remove and clear of one key, with their continuations *)
Next ==
  \/ \E data \in Values, ttl \in TTLs, lsOK \in BOOLEAN : set_call(<<"a">>, data, ttl, lsOK)
  \/ get_call(<<"a">>)
  \/ getAsync_call(<<"a">>)
  \/ remove_call(<<"a">>)
  \/ clear_call
  \/ \E i \in 1..Len(procs), ok \in BOOLEAN : set_mirror(i, ok)
  \/ \E i \in 1..Len(procs) : getAsync_match(i)
  \/ \E i \in 1..Len(procs), lsOK \in BOOLEAN : getAsync_done(i, lsOK)
  \/ \E i \in 1..Len(procs) : remove_done(i)
  \/ \E i \in 1..Len(procs) : clear_done(i)
  \/ tick

Spec == Init /\ [][Next]_vars

(* The stale-while-revalidate read of one key, over entries written by set. *)
(* No action here reads the Cache API tier, so every mirror write succeeds. *)
NextSWR ==
  \/ \E lsOK \in BOOLEAN : set_call(<<"a">>, "v1", 6, lsOK)
  \/ get_call(<<"a">>)
  \/ \E ttl \in TTLs, cb \in Callbacks : getStaleWhileRevalidate(<<"a">>, ttl, cb)
  \/ \E i \in 1..Len(procs), freshData \in FetchResults, lsOK \in BOOLEAN :
       fetch_resolve(i, freshData, lsOK)
  \/ \E i \in 1..Len(procs) : fetch_reject(i)
  \/ \E i \in 1..Len(procs) : set_mirror(i, TRUE)
  \/ tick

SpecSWR == Init /\ [][NextSWR]_vars

(* Stale-while-revalidate reads of one key by callers with different       *)
(* onUpdate callbacks                                                      *)
Notifiers == {"none", "cb1", "cb2"}

NextCoalesce ==
  \/ set_call(<<"a">>, "v1", 6, TRUE)
  \/ \E ttl \in TTLs, cb \in Notifiers : getStaleWhileRevalidate(<<"a">>, ttl, cb)
  \/ \E i \in 1..Len(procs), freshData \in FetchResults, lsOK \in BOOLEAN :
       fetch_resolve(i, freshData, lsOK)
  \/ \E i \in 1..Len(procs) : fetch_reject(i)
  \/ \E i \in 1..Len(procs) : set_mirror(i, TRUE)
  \/ tick

SpecCoalesce == Init /\ [][NextCoalesce]_vars

(* A cache that is filled by getStaleWhileRevalidate alone, from empty *)
NextMiss ==
  \/ \E ttl \in TTLs, cb \in Callbacks : getStaleWhileRevalidate(<<"a">>, ttl, cb)
  \/ get_call(<<"a">>)
  \/ \E i \in 1..Len(procs), freshData \in FetchResults, lsOK \in BOOLEAN :
       fetch_resolve(i, freshData, lsOK)
  \/ \E i \in 1..Len(procs) : fetch_reject(i)
  \/ \E i \in 1..Len(procs) : set_mirror(i, TRUE)
  \/ tick

SpecMiss == Init /\ [][NextMiss]_vars

(* remove and clear while the stale-while-revalidate read of the key is in *)
(* use                                                                     *)
NextTeardown ==
  \/ set_call(<<"a">>, "v1", 6, TRUE)
  \/ get_call(<<"a">>)
  \/ \E cb \in Callbacks : getStaleWhileRevalidate(<<"a">>, 6, cb)
  \/ remove_call(<<"a">>)
  \/ clear_call
  \/ \E i \in 1..Len(procs), freshData \in FetchResults, lsOK \in BOOLEAN :
       fetch_resolve(i, freshData, lsOK)
  \/ \E i \in 1..Len(procs) : fetch_reject(i)
  \/ \E i \in 1..Len(procs) : set_mirror(i, TRUE)
  \/ \E i \in 1..Len(procs) : remove_done(i)
  \/ \E i \in 1..Len(procs) : clear_done(i)
  \/ tick

SpecTeardown == Init /\ [][NextTeardown]_vars

(* localStorage shared with other code of the origin: sets of two keys,    *)
(* clear, and foreign keys, at one instant                                 *)
NextShared ==
  \/ \E key \in Keys, lsOK \in BOOLEAN : set_call(key, "v1", 0, lsOK)
  \/ \E k \in ForeignKeys : foreign_setItem(k)
  \/ clear_call
  \/ \E i \in 1..Len(procs) : set_mirror(i, TRUE)
  \/ \E i \in 1..Len(procs) : clear_done(i)

SpecShared == Init /\ [][NextShared]_vars

(* The memory tier alone: localStorage is disabled, so every setItem       *)
(* throws; preload fills the map to its limit and single calls follow      *)
memKey(n) == <<"k", n>>

MemProbe == {1, 2, MemoryCacheLimit, MemoryCacheLimit + 1, MemoryCacheLimit + 2}

FillItems == [n \in 1..MemoryCacheLimit |-> [key |-> memKey(n), data |-> "v1", ttl |-> 0]]

NextMem ==
  \/ preload_call(FillItems)
  \/ \E n \in MemProbe, data \in Values : set_call(memKey(n), data, 0, FALSE)
  \/ \E n \in MemProbe : get_call(memKey(n))
  \/ \E n \in MemProbe : getStaleWhileRevalidate(memKey(n), 0, "none")
  \/ \E i \in 1..Len(procs) : fetch_resolve(i, "v2", FALSE)
  \/ \E i \in 1..Len(procs) : fetch_reject(i)

SpecMem == Init /\ [][NextMem]_vars

(* Every operation but the stale-while-revalidate read, under every fault  *)
(* of the two platform stores and with malformed entries, at one instant   *)
PreloadItems ==
  <<[key |-> <<"a">>, data |-> "v2", ttl |-> 0], [key |-> <<"b">>, data |-> "v2", ttl |-> 0]>>

NextFaults ==
  \/ \E lsOK \in BOOLEAN : set_call(<<"a">>, "v1", 0, lsOK)
  \/ preload_call(PreloadItems)
  \/ corrupt(<<"a">>)
  \/ get_call(<<"a">>)
  \/ getAsync_call(<<"a">>)
  \/ remove_call(<<"a">>)
  \/ clear_call
  \/ getStats_call
  \/ \E i \in 1..Len(procs), ok \in BOOLEAN : set_mirror(i, ok)
  \/ \E i \in 1..Len(procs) : getAsync_match(i)
  \/ \E i \in 1..Len(procs), lsOK \in BOOLEAN : getAsync_done(i, lsOK)
  \/ \E i \in 1..Len(procs) : getAsync_fail(i)
  \/ \E i \in 1..Len(procs) : remove_done(i)
  \/ \E i \in 1..Len(procs) : clear_done(i)
  \/ \E i \in 1..Len(procs) : delete_fail(i)

SpecFaults == Init /\ [][NextFaults]_vars

(* The stats display over either version of the service, with the faults   *)
(* of its sources and of localStorage                                      *)
InitStats ==
  /\ now = 1
  /\ localStorage = <<>>
  /\ memoryCache = <<>>
  /\ cacheStorage = {}
  /\ pendingRevalidations = {}
  /\ procs = <<>>
  /\ last = None
  /\ latest = noEntries
  /\ bgCalls = [k \in Keys |-> 0]
  /\ calls = 0
  /\ \E variant \in Variants : stats = StatsInit(variant)
  /\ probe = NoProbe
  /\ accordion = NoAccordion
  /\ search = SearchInit(NoRoot, DefaultMaxResults)

NextStats ==
  \/ loadStats_call
  \/ \E gh \in GitHubResults, npm \in NpmResults, rel \in ReleaseResults,
        loc \in LocalResults, lsOK \in BOOLEAN : doFetch_settle(gh, npm, rel, loc, lsOK)
  \/ clearCache
  \/ elapse

SpecStats == InitStats /\ [][NextStats]_vars

(* One accordion group, exclusive or not, in which the page marks at most  *)
(* one item open                                                           *)
InitAccordion ==
  /\ now = 1
  /\ localStorage = <<>>
  /\ memoryCache = <<>>
  /\ cacheStorage = {}
  /\ pendingRevalidations = {}
  /\ procs = <<>>
  /\ last = None
  /\ latest = noEntries
  /\ bgCalls = [k \in Keys |-> 0]
  /\ calls = 0
  /\ stats = StatsInit("live")
  /\ probe = NoProbe
  /\ search = SearchInit(NoRoot, DefaultMaxResults)
  /\ \E exclusive \in BOOLEAN, opened \in {{}} \cup {{i} : i \in GroupItems} :
       accordion = AccordionInit(exclusive, opened)

NextAccordion ==
  \/ \E i \in GroupItems : toggle_event(i)
  \/ \E i \in GroupItems : animation_done(i)

SpecAccordion == InitAccordion /\ [][NextAccordion]_vars

(* The requests of the service: get() by loadStats and refresh() by other  *)
(* callers, over either version, with the GitHub API answering or every    *)
(* source failing                                                          *)
NextRequests ==
  \/ loadStats_call
  \/ refreshStats_call
  \/ \E gh \in GitHubResults, lsOK \in BOOLEAN :
       doFetch_settle(gh, Failed, Failed, Failed, lsOK)
  \/ clearCache
  \/ elapse

SpecRequests == InitStats /\ [][NextRequests]_vars

(* fuzzyMatch over every text and pattern of at most MaxLen characters, and *)
(* over the texts of the fuzzy-match boundary                               *)
InitFuzzy ==
  /\ now = 1
  /\ localStorage = <<>>
  /\ memoryCache = <<>>
  /\ cacheStorage = {}
  /\ pendingRevalidations = {}
  /\ procs = <<>>
  /\ last = None
  /\ latest = noEntries
  /\ bgCalls = [k \in Keys |-> 0]
  /\ calls = 0
  /\ stats = StatsInit("live")
  /\ \E text \in Strs(MaxLen) \cup BoundaryTexts, pattern \in Strs(MaxLen) \cup BoundaryTexts :
       probe = [NoProbe EXCEPT !.text = text, !.pattern = pattern]
  /\ search = SearchInit(NoRoot, DefaultMaxResults)
  /\ accordion = NoAccordion

NextFuzzy == fuzzyMatch_call

SpecFuzzy == InitFuzzy /\ [][NextFuzzy]_vars

(* The index and its queries over the pages of the model: the public API   *)
(* of the service                                                          *)
InitScore ==
  /\ now = 1
  /\ localStorage = <<>>
  /\ memoryCache = <<>>
  /\ cacheStorage = {}
  /\ pendingRevalidations = {}
  /\ procs = <<>>
  /\ last = None
  /\ latest = noEntries
  /\ bgCalls = [k \in Keys |-> 0]
  /\ calls = 0
  /\ stats = StatsInit("live")
  /\ probe = NoProbe
  /\ accordion = NoAccordion
  /\ \E content \in Pages, maxResults \in MaxResultsOptions :
       search = SearchInit(content, maxResults)

NextScore ==
  \/ \E query \in Queries : search_call(query)
  \/ refresh_call
  \/ click_outside

SpecScore == InitScore /\ [][NextScore]_vars

(* The search widget: the events of the user and the public API *)
InitSearch ==
  /\ now = 1
  /\ localStorage = <<>>
  /\ memoryCache = <<>>
  /\ cacheStorage = {}
  /\ pendingRevalidations = {}
  /\ procs = <<>>
  /\ last = None
  /\ latest = noEntries
  /\ bgCalls = [k \in Keys |-> 0]
  /\ calls = 0
  /\ stats = StatsInit("live")
  /\ probe = NoProbe
  /\ accordion = NoAccordion
  /\ \E content \in WidgetPages, maxResults \in MaxResultsOptions :
       search = SearchInit(content, maxResults)

NextSearch ==
  \/ focus_input
  \/ \E value \in Queries : input_event(value)
  \/ timer_fire
  \/ \E query \in Queries : search_call(query)
  \/ \E key \in KeyNames : keydown(key)
  \/ click_outside
  \/ \E i \in 0..(DefaultMaxResults - 1) : click_result(i)
  \/ refresh_call

SpecSearch == InitSearch /\ [][NextSearch]_vars

(* The browser runs the callback of a live timeout once its delay is over *)
(* over the events that reach the input and its timeout                    *)
NextDebounce ==
  \/ focus_input
  \/ \E value \in Queries : input_event(value)
  \/ timer_fire
  \/ \E query \in Queries : search_call(query)
  \/ click_outside

(* Weak fairness of timer_fire, WF_vars(timer_fire), with its enabling     *)
(* condition written out: timer_fire is enabled exactly when timerDue, and *)
(* every step of it changes search.timer                                   *)
timerFairness == <>[]timerDue => []<><<timer_fire>>_vars

SpecDebounce == InitSearch /\ [][NextDebounce]_vars /\ timerFairness

(* The index of a page of headings, built at construction and rebuilt by   *)
(* refresh()                                                               *)
InitAnchors ==
  /\ now = 1
  /\ localStorage = <<>>
  /\ memoryCache = <<>>
  /\ cacheStorage = {}
  /\ pendingRevalidations = {}
  /\ procs = <<>>
  /\ last = None
  /\ latest = noEntries
  /\ bgCalls = [k \in Keys |-> 0]
  /\ calls = 0
  /\ stats = StatsInit("live")
  /\ probe = NoProbe
  /\ accordion = NoAccordion
  /\ \E content \in AnchorPages : search = SearchInit(content, DefaultMaxResults)

NextAnchors == refresh_call

SpecAnchors == InitAnchors /\ [][NextAnchors]_vars

(* A query typed into the focused input, over two headings of one weight   *)
(* and one length                                                          *)
InitRank ==
  /\ now = 1
  /\ localStorage = <<>>
  /\ memoryCache = <<>>
  /\ cacheStorage = {}
  /\ pendingRevalidations = {}
  /\ procs = <<>>
  /\ last = None
  /\ latest = noEntries
  /\ bgCalls = [k \in Keys |-> 0]
  /\ calls = 0
  /\ stats = StatsInit("live")
  /\ probe = NoProbe
  /\ accordion = NoAccordion
  /\ \E query \in RankQueries :
       \E first \in PrefixTexts(query), second \in InnerTexts(query) :
         search = [open(SearchInit(<<El("h2", first, <<>>, 0), El("h2", second, <<>>, 0)>>,
                                   DefaultMaxResults))
                     EXCEPT !.focus = "input", !.value = query,
                            !.timer = [set |-> TRUE, value |-> query,
                                       delay |-> DebounceMs, stale |-> 0,
                                       cancelled |-> FALSE]]

NextRank == timer_fire

SpecRank == InitRank /\ [][NextRank]_vars

----------------------------------------------------------------------------
(* C1: once set(key, value, ttl) has run, get(key) returns value for as    *)
(* long as less than ttl has elapsed and no later set, remove or clear of  *)
(* the key has run, whichever tier the write went to.                      *)
C1_SetGetRoundTrip ==
  \A k \in Keys :
    (latest[k] # NoEntry /\ now - latest[k].timestamp < latest[k].ttl)
      => get(k) = latest[k].data

(* C2: once more than ttl has elapsed since the last set of a key, get     *)
(* returns null for it and so does every getAsync that returns, until the  *)
(* key is set again.                                                       *)
C2_ExpiryMonotonic ==
  \A k \in Keys :
    (latest[k] # NoEntry /\ now - latest[k].timestamp > latest[k].ttl)
      => /\ get(k) = Null
         /\ (last.op = "getAsync" /\ last.key = k) => last.ret = Null

----------------------------------------------------------------------------
(* The stored value of a full key in an ordered store, and in the Cache API *)
valueIn(store, k) == IF hasKey(store, k) THEN store[indexOf(store, k)].value ELSE NoEntry

cached(c, k) ==
  IF \E e \in c : e.key = k THEN (CHOOSE e \in c : e.key = k).value ELSE NoEntry

Absent(k) ==
  /\ ~hasKey(localStorage, getCacheKey(k))
  /\ ~hasKey(memoryCache, getCacheKey(k))
  /\ cached(cacheStorage, getCacheKey(k)) = NoEntry

SetInFlight(k) == \E i \in 1..Len(procs) : procs[i].key = k /\ procs[i].stage = "mirror"

(* C7: when remove(key) or clear() completes, and no set of the key wrote  *)
(* since it began or is still in flight, the key is in none of the three   *)
(* tiers; and a key that is in none of them stays so (get and getAsync     *)
(* return null) until a set of that key writes.                            *)
C7_RemovedAtDone ==
  \A k \in Keys :
    (/\ last.op \in {"remove", "clear"}
     /\ last.op = "remove" => last.key = k
     /\ latest[k] = NoEntry
     /\ ~SetInFlight(k))
      => Absent(k) /\ get(k) = Null

C7_StaysRemoved ==
  \A k \in Keys :
    (Absent(k) /\ ~SetInFlight(k) /\ latest'[k] = NoEntry)
      => /\ Absent(k)'
         /\ (last'.op = "getAsync" /\ last'.key = k) => last'.ret = Null

C7_RemoveDeletesAllTiers == []C7_RemovedAtDone /\ [][C7_StaysRemoved]_vars

(* C9: set wraps the value with the current time and the ttl and writes it *)
(* to localStorage; it writes the memory tier exactly when setItem threw,  *)
(* and the Cache API tier only after setItem succeeded, with the same      *)
(* entry; it returns true whether or not the mirror write succeeded.       *)
C9_SyncPart ==
  LET e == last'
      k == getCacheKey(e.key)
  IN (e.by = "set" /\ e.op \in {"set_call", "set"} /\ ~(e.op = "set" /\ e.ls)) =>
       /\ e.wrote.timestamp = now' /\ now' = now
       /\ e.wrote.ttl > 0
       /\ e.ls # e.mem
       /\ cacheStorage' = cacheStorage
       /\ e.ls => /\ e.op = "set_call"
                  /\ valueIn(localStorage', k) = stringify(e.wrote)
                  /\ memoryCache' = memoryCache
       /\ e.mem => /\ e.op = "set" /\ e.ret = "true"
                   /\ valueIn(memoryCache', k) = e.wrote
                   /\ localStorage' = localStorage

C9_MirrorPart ==
  LET e == last'
      k == getCacheKey(e.key)
  IN /\ (e.by = "set" /\ e.op = "set" /\ e.ls) =>
          /\ e.ret = "true"
          /\ e.mirror \in {"ok", "failed"}
          /\ localStorage' = localStorage /\ memoryCache' = memoryCache
          /\ e.mirror = "ok" => cached(cacheStorage', k) = stringify(e.wrote)
          /\ e.mirror = "failed" => cacheStorage' = cacheStorage
     /\ (cacheStorage' \ cacheStorage # {}) => e.ls /\ e.mirror = "ok"
     /\ (memoryCache' # memoryCache /\ Len(memoryCache') >= Len(memoryCache))
          => e.mem /\ ~e.ls

C9_TierSelection == [][C9_SyncPart /\ C9_MirrorPart]_vars

(* A set through the memory tier has completed next to an older entry of   *)
(* the key in localStorage, and one whose mirror write failed has returned *)
C9_Witness ==
  /\ last.by = "set" /\ last.op = "set" /\ last.ls /\ last.mirror = "failed"
  /\ hasKey(memoryCache, getCacheKey(last.key))

----------------------------------------------------------------------------
(* C8: clear() removes from localStorage exactly the entries whose key     *)
(* begins with 'omc:' and leaves every other entry, its value and the      *)
(* order of the rest as they were, in its synchronous part and in its      *)
(* awaited part.                                                           *)
C8_AtClear ==
  last.op = "clear_call" =>
    localStorage = SelectSeq(last.before, LAMBDA e : ~startsWith(e.key, Prefix))

C8_AfterClear == last'.op = "clear" => localStorage' = localStorage

C8_ClearFrame == []C8_AtClear /\ [][C8_AfterClear]_vars

(* clear has run over two adjacent keys of the cache and a foreign key *)
C8_Witness ==
  /\ last.op = "clear_call"
  /\ Len(last.before) = 3 /\ Len(localStorage) = 1
  /\ localStorage[1].key \in ForeignKeys

----------------------------------------------------------------------------
(* C10: the memory tier never holds more than 100 entries; a set of a key  *)
(* it does not hold appends the key and, when 100 were held, drops the     *)
(* first inserted of them; a set of a key it holds replaces the value in   *)
(* place; get and getStaleWhileRevalidate leave it as it is.               *)
C10_Capacity ==
  /\ Len(memoryCache) <= 100
  /\ \A i, j \in 1..Len(memoryCache) : memoryCache[i].key = memoryCache[j].key => i = j

C10_Step ==
  LET e == last'
      k == getCacheKey(e.key)
      new == [key |-> k, value |-> e.wrote]
      held == \E i \in 1..Len(memoryCache) : memoryCache[i].key = k
  IN /\ (e.mem /\ e.op \in {"set", "swr"}) =>
          IF held
          THEN /\ Len(memoryCache') = Len(memoryCache)
               /\ \A i \in 1..Len(memoryCache) :
                    memoryCache'[i] = IF memoryCache[i].key = k THEN new ELSE memoryCache[i]
          ELSE IF Len(memoryCache) < 100
          THEN memoryCache' = Append(memoryCache, new)
          ELSE memoryCache' = Append(Tail(memoryCache), new)
     /\ (e.op = "get" \/ (e.by = "swr" /\ calls' = calls + 1)) => memoryCache' = memoryCache

C10_MemoryCapacity == []C10_Capacity /\ [][C10_Step]_vars

(* A set of a new key into the full map has dropped the first key *)
C10_Witness ==
  /\ last.op = "set" /\ last.mem
  /\ Len(memoryCache) = 100
  /\ memoryCache[1].key = getCacheKey(memKey(2))
  /\ memoryCache[100].key = getCacheKey(last.key)

----------------------------------------------------------------------------
(* The entry of a key that get and getStaleWhileRevalidate read *)
stored(k) ==
  IF valueIn(localStorage, getCacheKey(k)) # NoEntry
  THEN valueIn(localStorage, getCacheKey(k))
  ELSE valueIn(memoryCache, getCacheKey(k))

(* Two entries with the same data, time of writing and ttl *)
sameEntry(a, b) ==
  /\ a # NoEntry /\ b # NoEntry
  /\ dataOf(a) = dataOf(b) /\ a.timestamp = b.timestamp /\ a.ttl = b.ttl

Revalidations(k) == {i \in 1..Len(procs) : procs[i].kind = "reval" /\ procs[i].key = k}

(* C3 as claimed: while the last written entry of a key is stale and not   *)
(* expired, fetchFn has been called in the background at most once since   *)
(* that entry was written.                                                 *)
C3_OncePerWindow ==
  \A k \in Keys :
    (/\ latest[k] # NoEntry
     /\ sameEntry(stored(k), latest[k])
     /\ 5 * (now - latest[k].timestamp) > 4 * latest[k].ttl
     /\ now - latest[k].timestamp < latest[k].ttl)
      => bgCalls[k] <= 1

(* C3: a key has at most one background revalidation in flight, and the    *)
(* guard holds exactly the keys that have one; a getStaleWhileRevalidate   *)
(* that finds a stale, unexpired entry returns its data without awaiting,  *)
(* and calls fetchFn only if no revalidation of the key is in flight.      *)
C3_OneInFlight ==
  \A k \in Keys :
    /\ Cardinality(Revalidations(k)) <= 1
    /\ k \in pendingRevalidations <=> Revalidations(k) # {}

C3_StaleCall ==
  \A k \in Keys :
    LET w == stored(k)
        age == now - w.timestamp
    IN (/\ calls' = calls + 1 /\ last'.by = "swr" /\ last'.key = k
        /\ w # NoEntry /\ 5 * age > 4 * w.ttl /\ age < w.ttl)
         => /\ last'.op = "swr" /\ last'.ret = dataOf(w) /\ ~last'.awaited
            /\ IF Revalidations(k) # {}
               THEN procs' = procs
               ELSE /\ Len(procs') = Len(procs) + 1
                    /\ Cardinality(Revalidations(k)') = 1

C3_Coalescing == []C3_OneInFlight /\ [][C3_StaleCall]_vars

(* A call in the stale window has found a revalidation in flight and has   *)
(* returned the cached data without starting another                       *)
C3_Witness ==
  /\ last.op = "swr" /\ last.guarded /\ ~last.started /\ last.ret = "v1"
  /\ now - last.found.timestamp < last.found.ttl
  /\ Revalidations(last.key) # {}

----------------------------------------------------------------------------
(* C4: a getStaleWhileRevalidate that finds an entry with data returns     *)
(* that data without awaiting; it calls fetchFn not at all when age is at  *)
(* most 0.8 * ttl, and otherwise (stale or expired) starts one background  *)
(* revalidation unless one is in flight for the key.                       *)
C4_Step ==
  \A k \in Keys :
    LET w == stored(k)
        age == now - w.timestamp
    IN (/\ calls' = calls + 1 /\ last'.by = "swr" /\ last'.key = k
        /\ w # NoEntry /\ dataOf(w) # Undefined)
         => /\ last'.op = "swr" /\ last'.ret = w.data /\ ~last'.awaited
            /\ \A i \in 1..Len(procs') : procs'[i].kind = "swr" => i <= Len(procs)
            /\ IF 5 * age <= 4 * w.ttl \/ k \in pendingRevalidations
               THEN procs' = procs /\ pendingRevalidations' = pendingRevalidations
               ELSE /\ Len(procs') = Len(procs) + 1
                    /\ SubSeq(procs', 1, Len(procs)) = procs
                    /\ procs'[Len(procs')].kind = "reval"
                    /\ procs'[Len(procs')].stage = "fetch"
                    /\ procs'[Len(procs')].key = k
                    /\ pendingRevalidations' = pendingRevalidations \cup {k}

C4_DecisionRule == [][C4_Step]_vars

(* An expired entry with data has been served and its revalidation started *)
C4_Witness ==
  /\ last.op = "swr" /\ last.started /\ last.ret = "v1"
  /\ now - last.found.timestamp > last.found.ttl

----------------------------------------------------------------------------
(* C5: a getStaleWhileRevalidate that found no entry awaits fetchFn; when  *)
(* fetchFn resolves it stores the result and returns it, and get of the    *)
(* key then returns that result (the entry not being expired and no later  *)
(* set, remove or clear of the key having run); it rejects only when       *)
(* fetchFn rejected and it had found no data, and a rejected miss leaves   *)
(* all tiers as they were.                                                 *)
C5_MissStored ==
  (/\ last.op = "swr" /\ last.awaited /\ last.wrote # NoEntry
   /\ latest[last.key] = last.wrote
   /\ now - last.wrote.timestamp <= last.wrote.ttl)
    => get(last.key) = last.ret

C5_Rejected ==
  /\ (last'.by = "swr" /\ last'.ret = "rejected") =>
       /\ last'.awaited /\ dataOf(last'.found) = Undefined
       /\ localStorage' = localStorage /\ memoryCache' = memoryCache
       /\ cacheStorage' = cacheStorage
  /\ (calls' = calls + 1 /\ last'.by = "swr" /\ stored(last'.key) = NoEntry) =>
       /\ last'.op = "swr_call" /\ last'.awaited
       /\ Len(procs') = Len(procs) + 1 /\ procs'[Len(procs')].stage = "fetch"

C5_MissPath == []C5_MissStored /\ [][C5_Rejected]_vars

----------------------------------------------------------------------------
(* C6: when a background revalidation has completed with data d (onUpdate  *)
(* is called, if one was given), the entry that reads of the key find is   *)
(* the one written for d, with the time of the write and the ttl of the    *)
(* starting call, unless a later set of the key has run; onUpdate is       *)
(* called once, at the end of the revalidation; a rejected fetchFn leaves  *)
(* all tiers as they were and calls no onUpdate.                           *)
C6_Written ==
  (/\ last.by = "reval" /\ last.op \in {"onUpdate", "revalidated"}
   /\ latest[last.key] = last.wrote)
    => /\ sameEntry(stored(last.key), last.wrote)
       /\ dataOf(last.wrote) = last.ret
       /\ now - last.wrote.timestamp <= last.wrote.ttl => get(last.key) = last.ret

C6_Settled ==
  \A k \in Keys :
    /\ (last'.op = "onUpdate" /\ last'.key = k) =>
         /\ last'.cb # "none"
         /\ Cardinality(Revalidations(k)) = 1
         /\ Revalidations(k)' = {}
    /\ (last'.op = "revalidation_failed" /\ last'.key = k) =>
         /\ localStorage' = localStorage /\ memoryCache' = memoryCache
         /\ cacheStorage' = cacheStorage
         /\ Revalidations(k)' = {}

C6_CompletionOrder == []C6_Written /\ [][C6_Settled]_vars

----------------------------------------------------------------------------
(* What get returns, from localStorage and the memory tier alone *)
syncGet(k) ==
  LET w == stored(k) IN
  IF w = NoEntry THEN Null
  ELSE IF now - w.timestamp > w.ttl THEN Null
  ELSE dataOf(w)

tiersUnchanged ==
  /\ localStorage' = localStorage /\ memoryCache' = memoryCache
  /\ cacheStorage' = cacheStorage

(* get and the synchronous part of getAsync *)
C11_Sync ==
  \A k \in Keys :
    /\ (last'.op = "get" /\ last'.key = k) => last'.ret = syncGet(k) /\ tiersUnchanged
    /\ (calls' = calls + 1 /\ last'.by = "getAsync" /\ last'.key = k) =>
         /\ tiersUnchanged
         /\ IF syncGet(k) # Null
            THEN last'.op = "getAsync" /\ last'.ret = syncGet(k) /\ procs' = procs
            ELSE last'.op = "getAsync_call" /\ Len(procs') = Len(procs) + 1

(* The read of the Cache API takes the entry the cache holds then *)
C11_Match ==
  \A i \in 1..Len(procs) :
    (/\ procs[i].kind = "getAsync" /\ procs[i].stage = "match"
     /\ Len(procs') = Len(procs) /\ procs'[i].stage = "json")
      => procs'[i].w = cached(cacheStorage, getCacheKey(procs[i].key)) /\ tiersUnchanged

(* The end of a getAsync that missed the synchronous tiers; mustWrite says *)
(* whether the back-fill is required to have reached localStorage          *)
C11_Done(mustWrite) ==
  \A k \in Keys :
    (last'.op = "getAsync" /\ last'.awaited /\ last'.key = k) =>
      LET w == last'.found IN
      /\ \E i \in 1..Len(procs) :
           procs[i].kind = "getAsync" /\ procs[i].stage = "json" /\ procs[i].w = w
      /\ memoryCache' = memoryCache /\ cacheStorage' = cacheStorage
      /\ IF w # NoEntry /\ now - w.timestamp <= w.ttl
         THEN /\ last'.ret = dataOf(w)
              /\ IF mustWrite \/ last'.ls
                 THEN valueIn(localStorage', getCacheKey(k)) = w /\ get(k)' = last'.ret
                 ELSE localStorage' = localStorage
         ELSE last'.ret = Null /\ localStorage' = localStorage

(* C11 as claimed: getAsync returns what get returns when that is not      *)
(* null; otherwise the data of the unexpired Cache API entry, which it     *)
(* writes unchanged to localStorage so that get then returns the same      *)
(* data; otherwise null.  get never reads the Cache API.                   *)
C11_AlwaysBackfilled == [][C11_Sync /\ C11_Match /\ C11_Done(TRUE)]_vars

(* C11: as above, the entry reaching localStorage, and get returning its   *)
(* data, when the setItem of the back-fill does not throw; when it throws  *)
(* getAsync returns the data all the same and localStorage is unchanged.   *)
C11_GetAsyncFallback == [][C11_Sync /\ C11_Match /\ C11_Done(FALSE)]_vars

(* A getAsync has returned the data of an entry written earlier and has    *)
(* stored that entry, with its own timestamp, in localStorage              *)
C11_Witness ==
  /\ last.op = "getAsync" /\ last.awaited /\ last.ls /\ last.ret \in Values
  /\ last.found.timestamp < now
  /\ valueIn(localStorage, getCacheKey(last.key)) = last.found

----------------------------------------------------------------------------
(* The entry of a key that a read finds, a malformed localStorage string   *)
(* counting as no entry                                                    *)
readable(k) ==
  LET s == valueIn(localStorage, getCacheKey(k)) IN
  IF s # NoEntry /\ "raw" \notin DOMAIN s THEN s
  ELSE valueIn(memoryCache, getCacheKey(k))

malformed(k) ==
  LET s == valueIn(localStorage, getCacheKey(k)) IN s # NoEntry /\ "raw" \in DOMAIN s

C12_NothingRaised == last.ret # Raised

C12_Degrades ==
  \A k \in Keys :
    LET w == readable(k)
        got == IF w = NoEntry THEN Null
               ELSE IF now - w.timestamp > w.ttl THEN Null ELSE dataOf(w)
    IN /\ (last'.op = "get" /\ last'.key = k) => last'.ret = got /\ tiersUnchanged
       /\ (calls' = calls + 1 /\ last'.by = "getAsync" /\ last'.key = k) =>
            /\ tiersUnchanged
            /\ IF got # Null THEN last'.op = "getAsync" /\ last'.ret = got
               ELSE last'.op = "getAsync_call" /\ Len(procs') = Len(procs) + 1
       /\ (last'.by = "set" /\ last'.op = "set" /\ last'.key = k) => last'.ret = "true"
       /\ (last'.by \in {"remove", "clear", "preload"}) => last'.ret = Null
       /\ (last'.op \in {"remove", "clear"} /\ last'.mirror = "failed") => tiersUnchanged
       /\ (last'.op = "getStats") =>
            /\ tiersUnchanged
            /\ last'.found.memoryCacheItems = Len(memoryCache)
            /\ last'.found.localStorageItems <= Len(localStorage)

----------------------------------------------------------------------------
(* The revalidations of a key whose fetchFn has not settled *)
Fetching(k) == {i \in Revalidations(k) : procs[i].stage = "fetch"}

(* The guard holds the keys with a revalidation in flight, getStats counts *)
(* them, and a revalidation whose fetchFn has resolved can end: the write  *)
(* to the Cache API it awaits settles one way or the other.                *)
C13_Guard ==
  /\ \A k \in Keys : k \in pendingRevalidations <=> Revalidations(k) # {}
  /\ pendingRevalidations \subseteq Keys
  /\ getStats.pendingRevalidations = Cardinality({k \in Keys : Revalidations(k) # {}})
  /\ \A i \in 1..Len(procs) :
       (procs[i].kind = "reval" /\ procs[i].stage = "mirror")
         => ENABLED (\E ok \in BOOLEAN : set_mirror(i, ok))

(* A step that settles the revalidation drops the key from the guard, at   *)
(* once when fetchFn rejects or the set ends in the memory tier, and when  *)
(* the awaited mirror write settles otherwise; as long as fetchFn has not  *)
(* settled the key stays in the guard and no other revalidation starts.    *)
C13_Step ==
  \A k \in Keys :
    /\ (last'.by = "reval" /\ last'.key = k
        /\ last'.op \in {"revalidation_failed", "onUpdate", "revalidated"})
         => k \in pendingRevalidations /\ k \notin pendingRevalidations'
    /\ (last'.by = "reval" /\ last'.key = k /\ last'.op = "set_call")
         => k \in pendingRevalidations'
    /\ (k \in pendingRevalidations /\ k \notin pendingRevalidations')
         => last'.by = "reval" /\ last'.key = k /\ Len(procs') = Len(procs) - 1
    /\ (Fetching(k) # {} /\ Len(procs') >= Len(procs))
         => /\ k \in pendingRevalidations'
            /\ Cardinality(Revalidations(k)') = 1

(* C13: a key is in pendingRevalidations exactly while a background        *)
(* revalidation of it is in flight; when fetchFn settles the key leaves    *)
(* the guard, so that a later stale read starts a new revalidation; while  *)
(* fetchFn has not settled the key stays and no revalidation is started.   *)
C13_GuardLifetime == []C13_Guard /\ [][C13_Step]_vars

(* A stale read has started a second revalidation after the first one of   *)
(* the same entry had settled                                              *)
C13_Witness ==
  /\ last.op = "swr" /\ last.started /\ ~last.guarded
  /\ bgCalls[last.key] = 2 /\ last.key \in pendingRevalidations

----------------------------------------------------------------------------
(* The fetch that just settled had every source fail, and a loadStats that *)
(* had found no cached stats was waiting for it                            *)
C14_Case ==
  /\ stats.pendingRequest /\ ~stats'.pendingRequest
  /\ stats'.fetch.allFailed
  /\ stats.cold /\ stats.waiters > 0

(* The stats shown when nothing could be fetched: the hardcoded values;    *)
(* the cached version of the service leaves the version at 0.0.0           *)
totalFailureData(variant) ==
  [FALLBACK EXCEPT !.version = IF variant = "live" THEN FALLBACK.version ELSE "0.0.0"]

(* C14 as stated: when every remote stats source fails and no cached stats *)
(* exist, the promise of statsService.get() is rejected and loadStats      *)
(* renders the error state.                                                *)
C14_RejectedOnTotalFailure ==
  [][C14_Case => (stats'.fetch.outcome = "rejected" /\ stats'.view = "error")]_vars

C14_Resolved ==
  C14_Case => /\ stats'.fetch.outcome = "resolved"
              /\ stats'.view = "stats"
              /\ stats'.shown = totalFailureData(stats.variant)
              /\ stats'.statsLoaded

(* C14: when every remote stats source fails and no cached stats exist,    *)
(* the promise of statsService.get() is still fulfilled, with the          *)
(* hardcoded fallback values, and loadStats renders them as stats; the     *)
(* error state is never rendered because of failing sources.               *)
C14_FallbackOnTotalFailure ==
  [](stats.view # "error" /\ stats.fetch.outcome # "rejected") /\ [][C14_Resolved]_vars

(* Every source has failed for a loadStats that had no cached stats, and   *)
(* the display shows the fallback values                                   *)
C14_Witness ==
  /\ stats.fetch.settled /\ stats.fetch.allFailed
  /\ stats.fetch.cold /\ stats.fetch.waiters > 0
  /\ stats.view = "stats"
  /\ stats.shown = totalFailureData(stats.variant)
  /\ stats.variant = "cached"

----------------------------------------------------------------------------
(* The reference definition: there are increasing positions of text that   *)
(* spell pattern                                                           *)
isSubsequence(text, pattern) ==
  \E f \in [1..Len(pattern) -> 1..Len(text)] :
    /\ \A i \in 1..Len(pattern) : text[f[i]] = pattern[i]
    /\ \A i, j \in 1..Len(pattern) : i < j => f[i] < f[j]

(* C15: fuzzyMatch(text, pattern) is true exactly when pattern is an       *)
(* ordered, not necessarily contiguous, subsequence of text; "abc" matches *)
(* "a1b2c3" and does not match "cba".                                      *)
C15_FuzzyIsSubsequence ==
  probe.called =>
    /\ probe.result = isSubsequence(probe.text, probe.pattern)
    /\ (probe.pattern = <<"a", "b", "c">> /\ probe.text = <<"a", "1", "b", "2", "c", "3">>)
         => probe.result
    /\ (probe.pattern = <<"a", "b", "c">> /\ probe.text = <<"c", "b", "a">>)
         => ~probe.result

(* "abc" has been matched against "a1b2c3" *)
C15_Witness ==
  /\ probe.called /\ probe.result
  /\ probe.pattern = <<"a", "b", "c">>
  /\ probe.text = <<"a", "1", "b", "2", "c", "3">>

----------------------------------------------------------------------------
(* The score of the specification, for a query taken as plain text *)

contains(text, word) ==
  \E i \in 1..(Len(text) + 1) :
    i + Len(word) - 1 <= Len(text) /\ SubSeq(text, i, i + Len(word) - 1) = word

atWordBoundary(text, word) ==
  \E i \in 1..(Len(text) + 1) :
    /\ i + Len(word) - 1 <= Len(text)
    /\ SubSeq(text, i, i + Len(word) - 1) = word
    /\ boundaryAt(text, i)

(* The lengths of the prefixes of pattern that the first i characters of   *)
(* text spell at increasing positions                                      *)
RECURSIVE spelled(_, _, _)
spelled(text, pattern, i) ==
  IF i = 0 THEN {0}
  ELSE LET before == spelled(text, pattern, i - 1)
       IN before \cup {j + 1 : j \in {k \in before : k < Len(pattern)
                                                    /\ text[i] = pattern[k + 1]}}

subsequenceOf(text, pattern) == Len(pattern) \in spelled(text, pattern, Len(text))

RECURSIVE refWordSum(_, _, _)
refWordSum(text, words, i) ==
  IF i > Len(words) THEN 0
  ELSE (IF contains(text, words[i]) THEN 3 ELSE 0)
       + (IF atWordBoundary(text, words[i]) THEN 2 ELSE 0)
       + refWordSum(text, words, i + 1)

refScore(item, query) ==
  LET text == toLowerCase(item.text)
      q == toLowerCase(query)
  IN item.weight * ((IF contains(text, q) THEN 10 ELSE 0)
                    + (IF startsWith(text, q) THEN 5 ELSE 0)
                    + refWordSum(text, SelectSeq(split(q), LAMBDA w : Len(w) > 0), 1)
                    + (IF subsequenceOf(text, q) THEN 2 ELSE 0))

(* search(query) has just run a query of at least two characters *)
C16_Searched == search.ev.op = "search" /\ search.ev.searched

(* The rendered results are the entries of positive score, best first, cut *)
(* at maxResults                                                           *)
C16_Ranked ==
  LET R == search.items
      q == search.ev.query
      index == search.index
  IN /\ ~search.ev.threw
     /\ Len(R) <= search.maxResults
     /\ \A r \in 1..Len(R) : R[r].score = refScore(R[r].item, q) /\ R[r].score > 0
     /\ \A r1, r2 \in 1..Len(R) : r1 < r2 => R[r1].score >= R[r2].score
     /\ \E f \in [1..Len(R) -> 1..Len(index)] :
          /\ \A r1, r2 \in 1..Len(R) : r1 # r2 => f[r1] # f[r2]
          /\ \A r \in 1..Len(R) : R[r].item = index[f[r]]
          /\ \A i \in 1..Len(index) :
               ((\A r \in 1..Len(R) : f[r] # i) /\ refScore(index[i], q) > 0)
                 => /\ Len(R) = search.maxResults
                    /\ \A r \in 1..Len(R) : refScore(index[i], q) <= R[r].score

(* The end-to-end example: "install" over the example page *)
C16_Example ==
  (Len(search.content) = Len(ExamplePage) /\ search.ev.query = toLowerCase(SubSeq(Installation, 1, 7)))
    => /\ Len(search.items) = 2
       /\ search.items[1].item.text = Installation /\ search.items[1].score >= 50
       /\ search.items[2].item.text = RunTheInstaller /\ search.items[2].score >= 10

(* C16: for every index and every query fuzzySearch returns exactly the    *)
(* entries of score > 0, where score = weight * (10 if the text contains   *)
(* the query + 5 if it starts with it + per query word 3 if contained and  *)
(* 2 more at a word boundary + 2 if the query is a subsequence), sorted by *)
(* score non-increasing, at most maxResults of them, none omitted that     *)
(* scores higher than one returned; "install" over the example page        *)
(* returns the heading Installation (>= 50), then the paragraph (>= 10).   *)
C16_ScoringAndRanking == C16_Searched => (C16_Ranked /\ C16_Example)

(* The same for the queries whose words are valid regular expressions,     *)
(* which holds                                                             *)
C16_PlainQueries ==
  (C16_Searched /\ ~regexThrows(search.ev.query)) => (C16_Ranked /\ C16_Example)

(* "install" has been searched on the example page *)
C16_ExampleSearched ==
  /\ C16_Searched /\ Len(search.content) = Len(ExamplePage)
  /\ Len(search.items) = 2 /\ search.items[1].score = 110 /\ search.items[2].score = 17

----------------------------------------------------------------------------
(* The typed query has been searched over two entries of one weight and    *)
(* one text length; the first starts with the query, the second contains   *)
(* it only further on                                                      *)
C17_Case ==
  /\ search.ev.op = "typed" /\ search.ev.searched /\ ~search.ev.threw
  /\ Len(search.index) = 2
  /\ search.index[1].weight = search.index[2].weight
  /\ Len(search.index[1].text) = Len(search.index[2].text)
  /\ startsWith(toLowerCase(search.index[1].text), search.ev.query)
  /\ contains(toLowerCase(search.index[2].text), search.ev.query)
  /\ ~startsWith(toLowerCase(search.index[2].text), search.ev.query)

(* C17: for every query and every pair of index entries of the same weight *)
(* and the same text length, an entry whose text starts with the query     *)
(* scores at least as much as an entry that contains the query only at a   *)
(* non-prefix position.                                                    *)
C17_PrefixScoresAtLeast ==
  C17_Case =>
    \A a, b \in 1..Len(search.items) :
      (search.items[a].item = search.index[1] /\ search.items[b].item = search.index[2])
        => search.items[a].score >= search.items[b].score

----------------------------------------------------------------------------
(* The elements of the content that buildIndex makes an entry of *)
indexed(content) ==
  IF content = NoRoot THEN {}
  ELSE {i \in 1..Len(content) :
          isHeading(content[i]) \/ Len(cleanText(content[i].text)) >= MinTextLength}

(* A refresh leaves the content, the index and the results of every query  *)
(* as they were, with one entry for each indexed element                   *)
C18_Step ==
  search'.ev.op = "refresh" =>
    /\ search'.content = search.content
    /\ search'.index = search.index
    /\ Len(search'.index) = Cardinality(indexed(search.content))
    /\ \A query \in Queries :
         fuzzySearch(search'.index, query, search.maxResults)
           = fuzzySearch(search.index, query, search.maxResults)

(* C18: with unchanged page content, refresh() called once or twice in     *)
(* succession, and the construction, yield the same index, so fuzzySearch  *)
(* returns identical results for any fixed query; refresh never            *)
(* accumulates duplicate entries.                                          *)
C18_RefreshIdempotent ==
  /\ [](Len(search.index) = Cardinality(indexed(search.content)))
  /\ [][C18_Step]_vars

(* The index of a page with headings and text has been rebuilt after a     *)
(* query was answered from it                                              *)
C18_Witness ==
  /\ search.ev.op = "refresh"
  /\ Len(search.index) > 2
  /\ Len(search.items) > 0

----------------------------------------------------------------------------
(* The flag agrees with the visibility of the results container *)
C19_Agree == search.isOpen = search.visible

(* After the input was focused the panel is open *)
C19_FocusOpens == search.ev.op = "focus" => search.isOpen

(* After a query, passed to search() or typed into the input, the panel is *)
(* open                                                                    *)
C19_QueryOpens == search.ev.op \in {"search", "typed"} => search.isOpen

(* After Escape, a click outside of the widget or the activation of a      *)
(* result the panel is closed                                              *)
C19_Closes ==
  (\/ search.ev.op \in {"Escape", "outside", "click"}
   \/ search.ev.op = "Enter" /\ search.ev.activated >= 0) => ~search.isOpen

(* Opening an open panel and closing a closed one change nothing but the   *)
(* focus                                                                   *)
C19_Idempotent ==
  (\/ search'.ev.op = "focus" /\ search.isOpen
   \/ search'.ev.op = "outside" /\ ~search.isOpen)
    => [search' EXCEPT !.ev = search.ev, !.focus = search.focus] = search

(* C19: the panel is closed or open and isOpen agrees with the visibility  *)
(* of the results container; from closed, input focus or a query opens it; *)
(* from open, Escape, a click outside the widget or activating a result    *)
(* closes it; open on an open panel and close on a closed one change       *)
(* nothing.                                                                *)
C19_PanelStateMachine ==
  /\ [](C19_Agree /\ C19_FocusOpens /\ C19_QueryOpens /\ C19_Closes)
  /\ [][C19_Idempotent]_vars

(* All of it but the opening by a query, which holds *)
C19_FocusOpensAndCloses ==
  /\ [](C19_Agree /\ C19_FocusOpens /\ C19_Closes)
  /\ [][C19_Idempotent]_vars

(* A typed query has been searched and rendered while the panel is closed *)
C19_TypedWhileClosed ==
  /\ search.ev.op = "typed" /\ search.ev.searched /\ ~search.ev.threw
  /\ ~search.isOpen /\ Len(search.items) > 0

----------------------------------------------------------------------------
(* A key pressed while the panel is open with at least one result *)
C20_Open ==
  LET n == Len(search.items)
      i == search.selectedIndex
  IN (search.isOpen /\ n >= 1) =>
       /\ search'.ev.op = "ArrowDown" =>
            /\ search'.selectedIndex = (i + 1) % n
            /\ search'.selected = {search'.selectedIndex}
            /\ search'.items = search.items /\ search'.isOpen
       /\ search'.ev.op = "ArrowUp" =>
            /\ search'.selectedIndex = (i - 1) % n
            /\ search'.selected = {search'.selectedIndex}
            /\ search'.items = search.items /\ search'.isOpen
       /\ search'.ev.op = "Enter" =>
            /\ i >= 0 /\ i < n
            /\ search'.ev.activated = i
            /\ ~search'.isOpen /\ ~search'.visible
       /\ search'.ev.op = "Escape" => (~search'.isOpen /\ ~search'.visible)

(* An arrow key or Enter pressed while the panel is closed *)
C20_Closed ==
  (~search.isOpen /\ search'.ev.op \in {"ArrowDown", "ArrowUp", "Enter"})
    => [search' EXCEPT !.ev = search.ev] = search

(* C20: while the panel is open with n >= 1 results and selected index i,  *)
(* ArrowDown selects (i+1) mod n and ArrowUp (i-1) mod n, exactly one      *)
(* result is marked selected after each key, Enter activates the selected  *)
(* result and closes the panel, Escape closes it; with the panel closed,   *)
(* arrow keys and Enter change nothing.                                    *)
C20_KeyboardNavigation == [][C20_Open /\ C20_Closed]_vars

(* ArrowDown on the last of several results has wrapped to the first *)
C20_Witness ==
  /\ search.ev.op = "ArrowDown" /\ search.isOpen
  /\ Len(search.items) >= 2
  /\ search.selectedIndex = 0 /\ search.selected = {0}

----------------------------------------------------------------------------
(* An input event schedules the one live timeout of the handler, with the  *)
(* delay debounceMs, and performs no search itself                         *)
C21_Scheduled ==
  search'.ev.op = "input" =>
    /\ search'.timer.set /\ search'.timer.stale = 0
    /\ search'.timer.delay = DebounceMs
    /\ search'.timer.value = search'.value
    /\ ~search'.ev.searched
    /\ search'.items = search.items /\ search'.message = search.message
    /\ search'.selectedIndex = search.selectedIndex

(* The search of a timeout is that of the scheduled timeout, leaves none   *)
(* scheduled and searches the value the input holds; a value of fewer than *)
(* MinQueryLength characters after trimming clears the results and does    *)
(* not reach fuzzySearch                                                   *)
C21_Fired ==
  search'.ev.op = "typed" =>
    /\ search.timer.set
    /\ search'.timer = NoTimer
    /\ search'.value = search.value
    /\ search'.ev.query = trim(search.value)
    /\ search'.ev.searched = (Len(trim(search.value)) >= MinQueryLength)
    /\ Len(trim(search.value)) < MinQueryLength =>
         /\ search'.items = <<>> /\ ~search'.message
         /\ search'.selectedIndex = -1 /\ search'.index = search.index

(* The value a pending timeout was scheduled for is the value of the       *)
(* input, unless search() has replaced it since                            *)
C21_Latest ==
  /\ search.timer.stale = 0
  /\ search.ev.op = "input" => search.timer.value = search.value
  /\ search.ev.searched => search.ev.op \in {"typed", "search"}

(* C21: every input event cancels the scheduled search and schedules a new *)
(* one debounceMs (150 ms) later; a burst of input events ends in exactly  *)
(* one search, after the last event, of the latest value of the input;     *)
(* a superseded input is never searched; a query shorter than 2 characters *)
(* after trimming clears the results without evaluating the index.         *)
C21_Debounce ==
  /\ [][C21_Scheduled /\ C21_Fired]_vars
  /\ []C21_Latest
  /\ (search.timer.set ~> (search.ev.op = "typed" /\ ~search.timer.set))

(* A burst of two or more input events has ended in one search of the      *)
(* value typed last                                                        *)
C21_Witness ==
  /\ search.ev.op = "typed" /\ search.ev.burst /\ search.ev.searched
  /\ search.ev.query = search.value
  /\ ~search.timer.set /\ search.items # <<>>

(* A value too short to search has cleared the results that were shown *)
C21_ShortQuery ==
  /\ search.ev.op = "typed" /\ ~search.ev.searched
  /\ Len(search.value) >= MinQueryLength
  /\ search.items = <<>>

----------------------------------------------------------------------------
(* Without a content root buildIndex returns at once: the index is empty,  *)
(* and every query that is searched renders the no-results message         *)
C22_MissingRoot ==
  search.content = NoRoot =>
    /\ search.index = <<>>
    /\ ~search.ev.threw
    /\ search.ev.searched => search.items = <<>> /\ search.message

(* C22: the search index never throws: performSearch and search complete   *)
(* without raising for every query, regular-expression metacharacters      *)
(* included, and every index; without a content root the index is empty    *)
(* and every query yields the empty result set.                            *)
C22_NeverThrows == ~search.ev.threw /\ C22_MissingRoot

(* search() on a page without a content root has rendered no results *)
C22_NoRootSearched ==
  /\ search.content = NoRoot /\ search.ev.op = "search" /\ search.ev.searched
  /\ search.items = <<>> /\ search.message /\ search.isOpen

----------------------------------------------------------------------------
(* The slug of a heading text, and the slug with the suffix k *)
slugOf(text) == stripDashes(slugFrom(toLowerCase(text), 1))

suffixed(base, k) == IF k = 0 THEN base ELSE base \o <<"-">> \o decimal(k)

(* The positions of the headings of the page *)
headingsOf(content) == {i \in 1..Len(content) : isHeading(content[i])}

(* The id of heading i is the slug of its text with the smallest suffix,   *)
(* none included, that no other element has                                *)
slugRule(content, i) ==
  \E k \in 0..Len(content) :
    /\ content[i].id = suffixed(slugOf(content[i].text), k)
    /\ \A m \in 0..(k - 1) :
         \E j \in 1..Len(content) : content[j].id = suffixed(slugOf(content[i].text), m)

(* The heading entries of the index carry the ids of the headings *)
entryIds(s) ==
  /\ \A n \in 1..Len(s.index) :
       s.index[n].type = "heading" =>
         \E i \in headingsOf(s.content) : s.content[i].id = s.index[n].id
  /\ Cardinality({n \in 1..Len(s.index) : s.index[n].type = "heading"})
       = Cardinality(headingsOf(s.content))

(* C23: after index construction all heading entries of the index have     *)
(* pairwise distinct anchor ids, which refresh keeps; a heading without an *)
(* id gets the slug of its text, or the slug with the smallest unused      *)
(* numeric suffix when the slug is in use; for any list of heading texts,  *)
(* repeated texts and texts with an empty slug included.                   *)
C23_UniqueAnchors ==
  /\ entryIds(search)
  /\ \A i \in headingsOf(search.content) : slugRule(search.content, i)
  /\ \A i, j \in headingsOf(search.content) :
       i # j => search.content[i].id # search.content[j].id
  /\ \A n, m \in 1..Len(search.index) :
       (n # m /\ search.index[n].type = "heading" /\ search.index[m].type = "heading")
         => search.index[n].id # search.index[m].id

(* The same for the headings whose text has a slug: they get distinct ids  *)
(* by the slug rule, and no id is the empty string                         *)
C23_SluggedAnchors ==
  /\ entryIds(search)
  /\ \A i \in headingsOf(search.content) : slugRule(search.content, i)
  /\ \A i, j \in headingsOf(search.content) :
       (i # j /\ slugOf(search.content[i].text) # <<>>)
         => /\ search.content[i].id # search.content[j].id
            /\ search.content[i].id # <<>>

(* refresh() leaves every id as it is *)
C23_Stable == [][search'.content = search.content /\ search'.index = search.index]_vars

(* Three headings of one slug, the first suffix taken by another element *)
C23_Suffixes ==
  /\ Len(search.content) = 4
  /\ search.content[1].id = <<"a">> /\ search.content[2].id = <<"a", "-", "2">>
  /\ search.content[3].id = <<"a", "-", "3">> /\ search.content[4].id = <<"a", "-", "1">>
  /\ search.ev.op = "refresh"

(* Two headings whose texts have no slug *)
C23_EmptySlugs ==
  /\ Len(search.content) >= 3
  /\ slugOf(search.content[1].text) = <<>> /\ slugOf(search.content[2].text) = <<>>
  /\ search.content[1].id = <<>> /\ search.content[2].id = <<>>

----------------------------------------------------------------------------
(* The calls of key k that are suspended at an await *)
InFlight(k) == {i \in 1..Len(procs) : procs[i].key = k}

(* A set of k that is called while a revalidation of k is in flight writes *)
(* its entry at once, whole, and leaves the revalidation and its guard     *)
C24_Set ==
  \A k \in Keys :
    (/\ calls' = calls + 1 /\ last'.by = "set" /\ last'.key = k
     /\ Revalidations(k) # {})
      => /\ sameEntry(stored(k)', last'.wrote)
         /\ last'.wrote.timestamp = now
         /\ Revalidations(k)' = Revalidations(k)
         /\ k \in pendingRevalidations'

(* The write of a revalidation, when its fetchFn resolves, is whole too *)
C24_Revalidated ==
  \A k \in Keys :
    (last'.by = "reval" /\ last'.key = k /\ last'.wrote # NoEntry /\ latest'[k] # latest[k])
      => sameEntry(stored(k)', last'.wrote)

(* A revalidation of k completes after a set has written k since its own  *)
(* write, and no call of k is in flight any more: the entry that reads     *)
(* find is the one that was written last                                   *)
C24_Settled ==
  \A k \in Keys :
    (/\ last.key = k /\ last.op \in {"onUpdate", "revalidated"}
     /\ latest[k] # NoEntry /\ latest[k] # last.wrote
     /\ InFlight(k) = {})
      => /\ sameEntry(stored(k), latest[k])
         /\ now - latest[k].timestamp <= latest[k].ttl => get(k) = dataOf(latest[k])

(* C24: a set(key, v) that runs while a background revalidation of the key *)
(* is in flight is not blocked or delayed by the guard; neither write is   *)
(* lost or merged; after both have completed the cached value is the one   *)
(* written last in execution order.                                        *)
C24_LastWriteWins == []C24_Settled /\ [][C24_Set /\ C24_Revalidated]_vars

(* The same while no setItem has thrown: the memory tier is empty *)
C24_WhenPersisted ==
  /\ [](memoryCache = <<>> => C24_Settled)
  /\ [][memoryCache' = <<>> => (C24_Set /\ C24_Revalidated)]_vars

(* The last write decides, not the last completion: a revalidation that    *)
(* completes after the set has completed leaves its data in the cache      *)
C24_ByCompletion ==
  [][\A k \in Keys :
       (/\ last'.by = "reval" /\ last'.key = k
        /\ last'.op \in {"onUpdate", "revalidated"}
        /\ memoryCache' = <<>> /\ InFlight(k)' = {})
         => dataOf(stored(k)') = last'.ret]_vars

(* A set has run while a revalidation was in flight, and both have         *)
(* completed, the revalidation last                                        *)
C24_Overlapped ==
  /\ last.by = "reval" /\ last.op \in {"onUpdate", "revalidated"}
  /\ InFlight(last.key) = {} /\ memoryCache = <<>>
  /\ latest[last.key] # NoEntry /\ latest[last.key] # last.wrote
  /\ latest[last.key].timestamp >= last.wrote.timestamp

----------------------------------------------------------------------------
(* A call that starts a revalidation hands it its own ttl and onUpdate *)
C25_Started ==
  \A k \in Keys, ttl \in TTLs, cb \in Notifiers :
    (getStaleWhileRevalidate(k, ttl, cb) /\ last'.started)
      => /\ k \notin pendingRevalidations /\ Revalidations(k) = {}
         /\ procs' = Append(procs, Proc("reval", "fetch", k, Null, ttl, cb, NoEntry))

(* A call that finds an entry with data while the guard is set returns the *)
(* data without awaiting and leaves the revalidation in flight as it is    *)
C25_Guarded ==
  \A k \in Keys :
    (/\ calls' = calls + 1 /\ last'.by = "swr" /\ last'.key = k
     /\ k \in pendingRevalidations /\ dataOf(stored(k)) # Undefined)
      => /\ last'.op = "swr" /\ last'.guarded /\ ~last'.started /\ ~last'.awaited
         /\ last'.ret = dataOf(stored(k))
         /\ procs' = procs

(* The revalidation keeps its ttl and onUpdate until it settles; the entry *)
(* it writes has that ttl, and the onUpdate it calls is that one           *)
C25_Settled ==
  \A k \in Keys :
    \A i \in Revalidations(k) :
      /\ \A j \in Revalidations(k)' : /\ procs'[j].cb = procs[i].cb
                                      /\ procs'[j].ttl = procs[i].ttl
      /\ (last'.by = "reval" /\ last'.key = k /\ last'.wrote # NoEntry)
           => last'.wrote.ttl = wrapData(Null, procs[i].ttl).ttl
      /\ (last'.key = k /\ last'.op = "onUpdate") => last'.cb = procs[i].cb
      /\ (last'.key = k /\ last'.op = "revalidated") => procs[i].cb = "none"

(* onUpdate is called by a revalidation in flight only *)
C25_ByRevalidation ==
  \A k \in Keys :
    (last'.key = k /\ last'.op \in {"onUpdate", "revalidated"}) => Revalidations(k) # {}

(* C25: when several getStaleWhileRevalidate calls for the same stale key  *)
(* are coalesced into one background revalidation, only the onUpdate and   *)
(* the ttl of the call that started the revalidation are used; the         *)
(* onUpdate of a call that found the guard set is never invoked, although  *)
(* that call received the stale data too.                                  *)
C25_StarterOnly ==
  [][C25_Started /\ C25_Guarded /\ C25_Settled /\ C25_ByRevalidation]_vars

(* A call with the callback cb2 has received the stale data while the      *)
(* revalidation started by a call with cb1 was in flight                   *)
C25_Witness ==
  /\ last.op = "swr" /\ last.guarded /\ ~last.started /\ last.cb = "cb2"
  /\ last.ret = "v1"
  /\ \E i \in Revalidations(last.key) : procs[i].cb = "cb1" /\ procs[i].ttl # 0

----------------------------------------------------------------------------
(* The calls of k that found no entry and await their fetchFn or their set *)
Misses(k) == {i \in 1..Len(procs) : procs[i].kind = "swr" /\ procs[i].key = k}

(* A call that finds no entry calls fetchFn and awaits it, whatever the    *)
(* guard and the calls in flight                                           *)
C26_Fetches ==
  \A k \in Keys :
    (/\ calls' = calls + 1 /\ last'.by = "swr" /\ last'.key = k
     /\ stored(k) = NoEntry)
      => /\ last'.op = "swr_call" /\ last'.awaited
         /\ procs' = Append(procs, procs'[Len(procs')])
         /\ procs'[Len(procs')].kind = "swr" /\ procs'[Len(procs')].stage = "fetch"
         /\ Cardinality(Misses(k)') = Cardinality(Misses(k)) + 1
         /\ pendingRevalidations' = pendingRevalidations

(* When its fetchFn resolves, each such call writes its own result, and    *)
(* this is the entry that reads find from then on                          *)
C26_Writes ==
  \A k \in Keys :
    (/\ last'.by = "swr" /\ last'.key = k /\ last'.wrote # NoEntry
     /\ latest'[k] # latest[k])
      => /\ latest'[k] = last'.wrote
         /\ last'.wrote.timestamp = now
         /\ sameEntry(stored(k)', last'.wrote)

(* When the last of them has completed, the cached entry is the one of the *)
(* fetch that resolved last                                                *)
C26_Last ==
  \A k \in Keys :
    (/\ last.key = k /\ last.op = "swr" /\ last.awaited /\ last.wrote # NoEntry
     /\ InFlight(k) = {} /\ latest[k] # NoEntry)
      => sameEntry(stored(k), latest[k])

(* C26: the miss path is not coalesced: N concurrent getStaleWhileRevalidate *)
(* calls for a key with no cached entry call fetchFn N times, each writes  *)
(* its own result with set, and the cached value afterwards is that of the *)
(* fetch that completed last.                                              *)
C26_MissNotCoalesced == []C26_Last /\ [][C26_Fetches /\ C26_Writes]_vars

(* The same while no setItem has thrown *)
C26_WhenPersisted ==
  /\ [](memoryCache = <<>> => C26_Last)
  /\ [][C26_Fetches /\ (memoryCache' = <<>> => C26_Writes)]_vars

(* Two calls that found no entry both await their own fetchFn *)
C26_TwoFetches ==
  /\ Cardinality(Misses(<<"a">>)) = 2
  /\ \A i \in Misses(<<"a">>) : procs[i].stage = "fetch"
  /\ pendingRevalidations = {}

(* Both have written, and the second has completed last *)
C26_BothWrote ==
  /\ last.op = "swr" /\ last.awaited /\ last.wrote # NoEntry
  /\ InFlight(last.key) = {} /\ memoryCache = <<>>
  /\ latest[last.key] = last.wrote /\ calls = 2
  /\ now = 1

----------------------------------------------------------------------------
(* The revalidations in flight, as the calls that are suspended *)
revalidating == SelectSeq(procs, LAMBDA p : p.kind = "reval")

(* remove and clear, at their call and at their completion, leave the      *)
(* guard and every revalidation in flight as they are                      *)
C27_Untouched ==
  last'.by \in {"remove", "clear"} =>
    /\ pendingRevalidations' = pendingRevalidations
    /\ revalidating' = revalidating

(* A revalidation whose fetchFn resolves writes its entry, also when the   *)
(* key has been removed or the cache cleared since it started: reads find  *)
(* that entry                                                              *)
C27_StillWrites ==
  \A k \in Keys :
    (/\ last'.by = "reval" /\ last'.key = k /\ latest'[k] # latest[k]
     /\ latest[k] = NoEntry)
      => /\ last'.wrote # NoEntry
         /\ stored(k) = NoEntry
         /\ sameEntry(stored(k)', last'.wrote)
         /\ get(k)' = dataOf(last'.wrote)

(* A revalidation in flight can always go on *)
C27_CanSettle ==
  \A i \in 1..Len(procs) :
    (procs[i].kind = "reval" /\ procs[i].stage = "fetch")
      => /\ procs[i].key \in pendingRevalidations
         /\ ENABLED (\E lsOK \in BOOLEAN : fetch_resolve(i, "v2", lsOK))

(* C27: remove(key) and clear() leave the pending-revalidation guard set   *)
(* unchanged, and a background revalidation that was in flight when they   *)
(* ran still writes its fetched data on completion, so that after they     *)
(* have completed the key can become readable again through get(key)       *)
(* without a set by any caller.                                            *)
C27_NotCancelled == []C27_CanSettle /\ [][C27_Untouched /\ C27_StillWrites]_vars

(* remove or clear has just completed, and get returns the data that the   *)
(* revalidation has written since it was called                            *)
C27_Witness ==
  /\ last.op \in {"remove", "clear"}
  /\ \E i \in Revalidations(<<"a">>) :
       /\ procs[i].stage = "mirror"
       /\ procs[i].w = latest[<<"a">>]
       /\ sameEntry(stored(<<"a">>), procs[i].w)
  /\ get(<<"a">>) = "v2"

----------------------------------------------------------------------------
(* With n >= 1 result items rendered, 0 <= selectedIndex < n *)
C28_InRange ==
  Len(search.items) >= 1 =>
    search.selectedIndex >= 0 /\ search.selectedIndex < Len(search.items)

(* A rendering of results selects the first; Enter activates the rendered  *)
(* item at selectedIndex, or nothing                                      *)
C28_Step ==
  /\ (search'.ev.searched /\ ~search'.ev.threw /\ search'.items # <<>>)
       => search'.selectedIndex = 0
  /\ search'.ev.op = "Enter" =>
       \/ search'.ev.activated = -1 /\ search'.isOpen = search.isOpen
       \/ /\ search'.ev.activated = search.selectedIndex
          /\ search.isOpen
          /\ search.selectedIndex >= 0 /\ search.selectedIndex < Len(search.items)

(* C28: after any sequence of searches, renderings, clears and arrow keys, *)
(* selectedIndex is -1 when no result items are rendered and satisfies     *)
(* 0 <= selectedIndex < n when n >= 1 items are rendered (0 right after a  *)
(* rendering), so that Enter activates a rendered item or nothing.         *)
C28_SelectedIndexInvariant ==
  /\ [](Len(search.items) = 0 => search.selectedIndex = -1)
  /\ []C28_InRange
  /\ [][C28_Step]_vars

(* With no result items rendered selectedIndex is -1 when the results      *)
(* container is empty, and -1 or the index of an item of the rendering     *)
(* before when the container holds the no-results message                  *)
C28_NoItems ==
  Len(search.items) = 0 =>
    /\ search.selectedIndex >= -1
    /\ search.selectedIndex < search.maxResults
    /\ ~search.message => search.selectedIndex = -1

(* C28, amended: selectedIndex is -1 at first and after clearResults; the  *)
(* rendering of an empty result leaves it as it was; with n >= 1 items it  *)
(* is in 0..n-1, 0 right after a rendering; Enter activates a rendered     *)
(* item or nothing.                                                        *)
C28_SelectionInRange == []C28_NoItems /\ []C28_InRange /\ [][C28_Step]_vars

(* Enter in an open panel that shows the no-results message, with the      *)
(* selectedIndex of the rendering before, has activated nothing            *)
C28_Witness ==
  /\ search.ev.op = "Enter" /\ search.ev.wasOpen /\ search.isOpen
  /\ search.items = <<>> /\ search.message
  /\ search.selectedIndex >= 1
  /\ search.ev.activated = -1

----------------------------------------------------------------------------
(* At most one doFetch is in flight, and pendingRequest is set exactly     *)
(* while it is                                                             *)
C29_OneInFlight ==
  /\ stats.inflight <= 1
  /\ stats.pendingRequest <=> stats.inflight = 1

(* A call that got the promise of fetchFresh while a request was in flight *)
(* awaits that request: it started none, and the request is still pending  *)
C29_Joined ==
  (stats.call.op \in {"get", "refresh"} /\ stats.call.pending /\ stats.call.awaits)
    => stats.pendingRequest /\ stats.inflight = 1 /\ stats.waiters + stats.refreshers >= 1

(* A call made while a request is in flight starts no second one; the      *)
(* settling of the request clears pendingRequest and answers every caller  *)
(* that awaits it; a call of fetchFresh made with none pending starts one  *)
C29_Step ==
  /\ stats.pendingRequest /\ stats'.pendingRequest => stats'.inflight = stats.inflight
  /\ stats.pendingRequest /\ ~stats'.pendingRequest =>
       /\ stats'.call.op = "settle" /\ stats'.inflight = 0
       /\ stats'.waiters = 0 /\ stats'.refreshers = 0
       /\ stats'.fetch.waiters = stats.waiters
       /\ stats'.fetch.refreshers = stats.refreshers
       /\ stats.waiters > 0 =>
            IF stats'.fetch.outcome = "resolved"
            THEN stats'.view = "stats" /\ stats'.shown = stats'.memoryCache
            ELSE stats'.view = "error"
  /\ ~stats.pendingRequest /\ stats'.call.awaits /\ stats'.call # stats.call =>
       stats'.pendingRequest /\ stats'.inflight = 1

(* A call of get() made while a request is in flight awaits that request *)
C29_EveryGetJoins ==
  (stats.call.op \in {"get", "refresh"} /\ stats.call.pending) => stats.call.awaits

(* C29: at any time at most one doFetch is in flight; every fetchFresh,    *)
(* get or refresh call made while one is in flight receives the result of  *)
(* that same request and starts no second one; pendingRequest is cleared   *)
(* when the request settles, so a call made afterwards starts a new fetch. *)
C29_Coalescing ==
  /\ []C29_OneInFlight /\ []C29_Joined /\ [][C29_Step]_vars
  /\ []C29_EveryGetJoins

(* C29, amended: the calls that receive the result of the request in       *)
(* flight are those that reach fetchFresh; a get() of the cached version   *)
(* that is answered from a valid cache returns the cached data, and starts *)
(* no second request either.                                               *)
C29_CoalescedInFetchFresh ==
  /\ []C29_OneInFlight /\ []C29_Joined /\ [][C29_Step]_vars
  /\ [](stats.call.op = "refresh" => stats.call.awaits)
  /\ [](stats.call.op = "get" /\ stats.variant = "live" => stats.call.awaits)

(* A request that get() and refresh() both awaited has settled, and a call *)
(* made after it has started a new one                                     *)
C29_Witness ==
  /\ stats.fetch.settled /\ stats.fetch.waiters >= 1 /\ stats.fetch.refreshers >= 1
  /\ stats.call.op \in {"get", "refresh"} /\ ~stats.call.pending /\ stats.call.awaits
  /\ stats.pendingRequest /\ stats.inflight = 1

(* get() of the cached version answered from the cache while the           *)
(* background refresh it had triggered before was in flight                *)
C29_AnsweredFromCache ==
  /\ stats.variant = "cached" /\ stats.call.op = "get"
  /\ stats.call.pending /\ ~stats.call.awaits
  /\ stats.view = "stats" /\ stats.pendingRequest

----------------------------------------------------------------------------
openItems == {i \in DOMAIN accordion.items : accordion.items[i].open}

animatingItems == {i \in DOMAIN accordion.items : accordion.items[i].isAnimating}

(* In an exclusive group with no item animating at most one item is open *)
C30_AtMostOneOpen ==
  (accordion.exclusive /\ animatingItems = {}) => Cardinality(openItems) <= 1

(* A toggle that opens an item of an exclusive group leaves every other    *)
(* open item closing                                                       *)
C30_ClosesOthers ==
  \A i \in DOMAIN accordion.items :
    (/\ accordion.exclusive
     /\ accordion'.ev = [op |-> "toggle", item |-> i]
     /\ ~accordion.items[i].open /\ accordion'.items[i].open)
    => \A j \in DOMAIN accordion.items \ {i} :
         accordion.items[j].open => accordion'.items[j].timer = "close"

(* C30: in a group marked data-exclusive, for any sequence of toggles and  *)
(* animation-timer completions, whenever no item of the group is animating *)
(* at most one item is open; opening an item closes every other open item, *)
(* also when the other item's own open animation has not finished yet.     *)
C30_ExclusiveGroup == []C30_AtMostOneOpen /\ [][C30_ClosesOthers]_vars

(* Two items of an exclusive group are open and nothing is animating *)
C30_TwoOpen ==
  /\ accordion.exclusive /\ animatingItems = {}
  /\ Cardinality(openItems) >= 2

(* A toggle that opens an item of an exclusive group while no other item   *)
(* is animating leaves every other open item closing                       *)
C30_ClosesIdleOthers ==
  [][\A i \in DOMAIN accordion.items :
       (/\ accordion.exclusive
        /\ accordion'.ev = [op |-> "toggle", item |-> i]
        /\ ~accordion.items[i].open /\ accordion'.items[i].open)
       => \A j \in DOMAIN accordion.items \ {i} :
            (accordion.items[j].open /\ ~accordion.items[j].isAnimating)
              => accordion'.items[j].timer = "close"]_vars

====
